---- MODULE Spec2Model ----
(***************************************************************************)
(* A model of the spiking-network engine of neural-net-builder:            *)
(* the node classes (BaseNode, BrainNode, InputNode, OutputNode,           *)
(* SustainedOutputNode, and the older Node class the node tests use) and   *)
(* the NeuralNet container (modules, nodes, connections, derived indices). *)
(*                                                                         *)
(* Reals are fixed-point integers: the real r is the integer r * ONE.      *)
(* A product of two reals a * b is (a * b) \div ONE.                       *)
(***************************************************************************)
EXTENDS Integers, Sequences, FiniteSets, TLC

VARIABLES
    node,       \* a node object driven directly through update()/setInput()/reset()
    hist,       \* history of `node` since its construction (see InitNode)
    modules,            \* NeuralNet.modules: descriptors, in Map insertion order
    nodes,              \* NeuralNet.nodes: node objects, in Map insertion order
    connections,        \* NeuralNet.connections: the edge array
    moduleConnections,  \* NeuralNet.moduleConnections: link key -> link config
    incoming,           \* NeuralNet.incoming: node id -> positions in `connections`
    nodeModuleMap,      \* NeuralNet.nodeModuleMap: node id -> module id
    tickCount,          \* NeuralNet.tickCount
    nonce,              \* `${Date.now()}-${Math.random()}` suffixes handed out so far
    nh                  \* history of the last call made on the net (see InitNet)

nodeVars == <<node, hist>>

netVars == <<modules, nodes, connections, moduleConnections, incoming,
             nodeModuleMap, tickCount, nonce, nh>>

vars == <<node, hist, modules, nodes, connections, moduleConnections, incoming,
          nodeModuleMap, tickCount, nonce, nh>>

\* ------------------------------------------------------------------ units

\* The fixed-point unit, the real 1.0.  It is divisible by 2..6, 10 and 100, so
\* that gain / count, boost / count and index / (total - 1) are exact for the
\* small counts the model reaches.
ONE == 6 * 10 * 10 * 10

Mul(a, b) == (a * b) \div ONE

Opt(c, f, d) == IF f \in DOMAIN c THEN c[f] ELSE d

\* ------------------------------------------------------------------ bounds

\* Updates of one node that the history records; update() is disabled beyond it.
MaxTicks == 5

\* The largest refractoryPeriod a node is configured with.
MaxRefractory == 2

\* Calls other than update() made on one directly driven node.
MaxOps == 1

\* ------------------------------------------------------------------ BaseNode

\* BaseNode's field initialisers and constructor.
BaseNode(config) ==
    [ cls              |-> "BaseNode",
      type             |-> config.type,
      potential        |-> 0,
      activation       |-> 0,
      isFiring         |-> FALSE,
      bias             |-> Opt(config, "bias", 0),
      threshold        |-> Opt(config, "threshold", ONE),
      decay            |-> 0,
      maxPotential     |-> Opt(config, "maxPotential", 3 * ONE),
      activationType   |-> "PULSE",
      inputType        |-> "PULSE",
      fatigue          |-> Opt(config, "fatigue", 0),
      recovery         |-> Opt(config, "recovery", 0),
      currentThreshold |-> Opt(config, "threshold", ONE),
      refractoryPeriod |-> 0,
      refractoryTimer  |-> 0,
      adaptiveThreshold |-> Opt(config, "adaptiveThreshold", FALSE),
      adaptationSpeed  |-> Opt(config, "adaptationSpeed", 0),
      targetRate       |-> Opt(config, "targetRate", 0) ]

\* BaseNode.reset
BaseNode_reset(n) ==
    [n EXCEPT !.potential = 0, !.activation = 0, !.isFiring = FALSE,
              !.refractoryTimer = 0, !.currentThreshold = n.threshold]

\* BaseNode.setInput
BaseNode_setInput(n, val) == [n EXCEPT !.potential = val]

\* ------------------------------------------------------------------ BrainNode

\* BrainNode's constructor.
BrainNode(config) ==
    [BaseNode(config) EXCEPT
        !.cls = "BrainNode",
        !.decay = Opt(config, "decay", (9 * ONE) \div 10),
        !.refractoryPeriod = Opt(config, "refractoryPeriod", 2)]

BrainNode_fire_NoTimer(n, jitter) ==
    [n EXCEPT !.isFiring = TRUE,
              !.activation = ONE,
              !.potential = n.potential - n.currentThreshold,
              !.currentThreshold = n.currentThreshold + n.fatigue]

\* BrainNode.fire; jitter is the outcome of Math.random() < 0.5 ? 0 : 1.
BrainNode_fire(n, jitter) ==
    [n EXCEPT !.isFiring = TRUE,
              !.activation = ONE,
              !.potential = n.potential - n.currentThreshold,
              !.currentThreshold = n.currentThreshold + n.fatigue,
              !.refractoryTimer = n.refractoryPeriod + jitter]

\* BrainNode.update
BrainNode_update(n, inputSum, jitter) ==
    IF n.refractoryTimer > 0
    THEN [n EXCEPT !.refractoryTimer = n.refractoryTimer - 1,
                   !.isFiring = FALSE,
                   !.activation = 0]
    ELSE
      LET p1 == n.potential + inputSum + n.bias
          p2 == Mul(p1, n.decay)
          p3 == IF p2 < 0 THEN 0 ELSE p2
          p4 == IF p3 > n.maxPotential THEN n.maxPotential ELSE p3
          ct == IF n.currentThreshold > n.threshold
                THEN (IF n.currentThreshold - n.recovery < n.threshold
                      THEN n.threshold
                      ELSE n.currentThreshold - n.recovery)
                ELSE n.currentThreshold
          n1 == [n EXCEPT !.potential = p4, !.currentThreshold = ct]
      IN IF p4 >= ct
         THEN LET f == BrainNode_fire(n1, jitter)
              IN  IF f.adaptiveThreshold
                  THEN [f EXCEPT !.threshold = f.threshold + f.adaptationSpeed]
                  ELSE f
         ELSE LET q == [n1 EXCEPT !.isFiring = FALSE, !.activation = 0]
                  lowered == q.threshold - Mul(q.adaptationSpeed, q.targetRate)
              IN  IF q.adaptiveThreshold
                  THEN [q EXCEPT !.threshold =
                          IF lowered > ONE \div 10 THEN lowered ELSE ONE \div 10]
                  ELSE q

\* ------------------------------------------------------------------ InputNode

\* InputNode's constructor.
InputNode(config) ==
    [BaseNode(config) EXCEPT
        !.cls = "InputNode",
        !.inputType = Opt(config, "inputType", "PULSE"),
        !.decay = 0,
        !.threshold = 0]

\* InputNode.update without the one-shot reset of a PULSE sensor.
InputNode_update_Hold(n, gen) ==
    IF n.inputType = "SIN"
    THEN [n EXCEPT !.activation = gen.val, !.potential = gen.val,
                   !.isFiring = (gen.val > ONE \div 2)]
    ELSE IF n.inputType = "NOISE"
    THEN (IF gen.hit
          THEN [n EXCEPT !.activation = gen.val, !.potential = gen.val,
                         !.isFiring = TRUE]
          ELSE [n EXCEPT !.activation = 0, !.potential = 0, !.isFiring = FALSE])
    ELSE n

\* InputNode.update; gen.val stands for the generator's value on this tick
\* ((sin + 1) / 2, or Math.random()), gen.hit for the NOISE density roll.
InputNode_update(n, gen) ==
    LET a == IF n.inputType = "SIN"
             THEN [n EXCEPT !.activation = gen.val, !.potential = gen.val,
                            !.isFiring = (gen.val > ONE \div 2)]
             ELSE IF n.inputType = "NOISE"
             THEN (IF gen.hit
                   THEN [n EXCEPT !.activation = gen.val, !.potential = gen.val,
                                  !.isFiring = TRUE]
                   ELSE [n EXCEPT !.activation = 0, !.potential = 0,
                                  !.isFiring = FALSE])
             ELSE n
    IN  IF n.inputType = "PULSE"
        THEN [a EXCEPT !.potential = 0, !.activation = 0, !.isFiring = FALSE]
        ELSE a

\* InputNode.setInput
InputNode_setInput(n, val) ==
    [n EXCEPT !.potential = val, !.activation = val,
              !.isFiring = (val >= (8 * ONE) \div 10)]

\* ------------------------------------------------------------------ OutputNode

\* OutputNode's constructor.
OutputNode(config) == [BaseNode(config) EXCEPT !.cls = "OutputNode", !.decay = 0]

\* OutputNode.update with the reset of the branch that does not fire left out.
OutputNode_update_KeepOnMiss(n, inputSum) ==
    LET p1 == n.potential + inputSum + n.bias
        p2 == IF p1 > n.maxPotential THEN n.maxPotential ELSE p1
    IN  IF p2 >= n.threshold
        THEN [n EXCEPT !.isFiring = TRUE, !.activation = ONE, !.potential = 0]
        ELSE [n EXCEPT !.isFiring = FALSE, !.activation = 0, !.potential = p2]

\* OutputNode.update
OutputNode_update(n, inputSum) ==
    LET p1 == n.potential + inputSum + n.bias
        p2 == IF p1 > n.maxPotential THEN n.maxPotential ELSE p1
    IN  IF p2 >= n.threshold
        THEN [n EXCEPT !.isFiring = TRUE, !.activation = ONE, !.potential = 0]
        ELSE [n EXCEPT !.isFiring = FALSE, !.activation = 0, !.potential = 0]

\* SustainedOutputNode's constructor.
SustainedOutputNode(config) ==
    [BaseNode(config) EXCEPT
        !.cls = "SustainedOutputNode",
        !.activationType = "SUSTAINED",
        !.decay = Opt(config, "decay", (9 * ONE) \div 10)]

\* SustainedOutputNode.update
SustainedOutputNode_update(n, inputSum) ==
    LET p1 == n.potential + inputSum + n.bias
        p2 == Mul(p1, n.decay)
        p3 == IF p2 < 0 THEN 0 ELSE p2
        p4 == IF p3 > n.maxPotential THEN n.maxPotential ELSE p3
    IN  IF p4 >= n.threshold
        THEN [n EXCEPT !.potential = p4, !.isFiring = TRUE, !.activation = ONE]
        ELSE [n EXCEPT !.potential = p4, !.isFiring = FALSE, !.activation = 0]

\* ------------------------------------------------------------------ Node (Node.ts)

\* Node's constructor (Node.ts), the class the node tests construct.
Node(config) ==
    LET at == IF Opt(config, "activationType", "PULSE") = "SUSTAINED"
              THEN "SUSTAINED" ELSE "PULSE"
        isOut == config.type \in {"OUTPUT", "INTERPRETATION"}
    IN  [ cls              |-> "Node",
          type             |-> config.type,
          potential        |-> 0,
          activation       |-> 0,
          isFiring         |-> FALSE,
          bias             |-> Opt(config, "bias", 0),
          threshold        |-> Opt(config, "threshold", ONE),
          decay            |-> IF isOut /\ at # "SUSTAINED"
                               THEN 0
                               ELSE Opt(config, "decay", (9 * ONE) \div 10),
          maxPotential     |-> Opt(config, "maxPotential", 3 * ONE),
          activationType   |-> at,
          inputType        |-> "PULSE",
          fatigue          |-> Opt(config, "fatigue", 0),
          recovery         |-> Opt(config, "recovery", 0),
          currentThreshold |-> Opt(config, "threshold", ONE),
          refractoryPeriod |-> Opt(config, "refractoryPeriod", 2),
          refractoryTimer  |-> 0,
          adaptiveThreshold |-> FALSE,
          adaptationSpeed  |-> 0,
          targetRate       |-> 0 ]

\* Node.update (Node.ts)
Node_update(n, inputSum, jitter) ==
    LET p1 == n.potential + inputSum + n.bias
        p2 == Mul(p1, n.decay)
        p3 == IF p2 < 0 THEN 0 ELSE p2
        p4 == IF p3 > n.maxPotential THEN n.maxPotential ELSE p3
        ct == IF n.currentThreshold > n.threshold
              THEN (IF n.currentThreshold - n.recovery < n.threshold
                    THEN n.threshold
                    ELSE n.currentThreshold - n.recovery)
              ELSE n.threshold
        n1 == [n EXCEPT !.potential = p4, !.currentThreshold = ct]
        isSustainedOutput == n.type = "OUTPUT" /\ n.activationType = "SUSTAINED"
    IN  IF p4 >= ct /\ n.refractoryTimer > 0
        THEN \* gated: the early return skips the final reset of PULSE potential
             [n1 EXCEPT !.refractoryTimer = n.refractoryTimer - 1,
                        !.isFiring = FALSE,
                        !.activation = 0,
                        !.potential = IF n.activationType = "PULSE" THEN 0 ELSE p4]
        ELSE
          LET n2 == IF p4 >= ct
                    THEN [n1 EXCEPT
                            !.isFiring = TRUE,
                            !.activation = ONE,
                            !.refractoryTimer = n.refractoryPeriod + jitter,
                            !.potential = IF isSustainedOutput THEN p4 ELSE p4 - ct,
                            !.currentThreshold = ct + n.fatigue]
                    ELSE [n1 EXCEPT
                            !.isFiring = FALSE,
                            !.activation = 0,
                            !.refractoryTimer =
                                IF n.refractoryTimer > 0
                                THEN n.refractoryTimer - 1 ELSE 0]
          IN  IF n.activationType # "SUSTAINED"
              THEN [n2 EXCEPT !.potential = 0]
              ELSE n2

\* Node.setInput (Node.ts)
Node_setInput(n, val) ==
    [n EXCEPT !.potential = val, !.activation = val,
              !.isFiring = (val >= (8 * ONE) \div 10)]

\* Node.reset (Node.ts)
Node_reset(n) ==
    [n EXCEPT !.potential = 0, !.activation = 0, !.isFiring = FALSE,
              !.refractoryTimer = 0]

\* ------------------------------------------------------------------ NodeFactory

\* NodeFactory.create
NodeFactory_create(config) ==
    IF config.type = "INPUT" THEN InputNode(config)
    ELSE IF config.type \in {"OUTPUT", "INTERPRETATION", "LEARNED"}
    THEN (IF Opt(config, "activationType", "PULSE") = "SUSTAINED"
          THEN SustainedOutputNode(config)
          ELSE OutputNode(config))
    ELSE BrainNode(config)

\* Dynamic dispatch of node.update(inputSum) over the node's class.
Update(n, inputSum, jitter, gen) ==
    CASE n.cls = "BrainNode"           -> BrainNode_update(n, inputSum, jitter)
      [] n.cls = "InputNode"           -> InputNode_update(n, gen)
      [] n.cls = "OutputNode"          -> OutputNode_update(n, inputSum)
      [] n.cls = "SustainedOutputNode" -> SustainedOutputNode_update(n, inputSum)
      [] n.cls = "Node"                -> Node_update(n, inputSum, jitter)

\* Dynamic dispatch of node.setInput(val).
SetInput(n, val) ==
    CASE n.cls = "InputNode" -> InputNode_setInput(n, val)
      [] n.cls = "Node"      -> Node_setInput(n, val)
      [] n.cls \notin {"InputNode", "Node"} -> BaseNode_setInput(n, val)

\* Dynamic dispatch of node.reset().
Reset(n) == IF n.cls = "Node" THEN Node_reset(n) ELSE BaseNode_reset(n)

\* updateModule's per-node parameter update (the branch without regeneration).
UpdateNodeParams(n, newConfig) ==
    LET n1 == IF "threshold" \in DOMAIN newConfig
              THEN [n EXCEPT !.threshold = newConfig.threshold] ELSE n
        n2 == IF "decay" \in DOMAIN newConfig
              THEN [n1 EXCEPT !.decay = newConfig.decay] ELSE n1
        n3 == IF "refractoryPeriod" \in DOMAIN newConfig
              THEN [n2 EXCEPT !.refractoryPeriod = newConfig.refractoryPeriod] ELSE n2
        n4 == IF "fatigue" \in DOMAIN newConfig
              THEN [n3 EXCEPT !.fatigue = newConfig.fatigue] ELSE n3
        n5 == IF "recovery" \in DOMAIN newConfig
              THEN [n4 EXCEPT !.recovery = newConfig.recovery] ELSE n4
    IN  IF "activationType" \in DOMAIN newConfig
        THEN [n5 EXCEPT !.activationType =
                IF newConfig.activationType = "SUSTAINED" THEN "SUSTAINED" ELSE "PULSE"]
        ELSE n5

\* ------------------------------------------------------------------ one node, driven directly

\* The inputs update() is called with.
InputSums == { -ONE, ONE \div 2, (3 * ONE) \div 2 }

\* The values setInput() is called with.
SetInputVals == { -(ONE \div 2), ONE, 4 * ONE }

\* The generator outcomes of a SIN or NOISE sensor.
Gens == { [val |-> v, hit |-> h] : v \in {0, (3 * ONE) \div 4}, h \in BOOLEAN }

NoGen == [val |-> 0, hit |-> FALSE]

\* The configurations nodes are constructed with.
NodeConfigs ==
    { [type |-> t, activationType |-> a, refractoryPeriod |-> r,
       threshold |-> ONE, decay |-> (9 * ONE) \div 10, fatigue |-> f] :
        t \in {"HIDDEN", "OUTPUT"}, a \in {"PULSE", "SUSTAINED"},
        r \in 0..MaxRefractory, f \in {0, ONE \div 2} }
    \cup { [type |-> "INPUT", inputType |-> it] : it \in {"PULSE", "SIN", "NOISE"} }

\* The parameter changes updateModule applies to existing nodes.
ParamConfigs ==
    { [refractoryPeriod |-> r] : r \in 0..MaxRefractory }
    \cup { [threshold |-> (3 * ONE) \div 2], [activationType |-> "SUSTAINED"] }

\* The history kept of `node`:
\*   pattern    one entry per update(): 0 = did not fire, 1 + jitter = fired
\*   firstIn    the input of the first update()
\*   sameIn     every update() so far got the input firstIn
\*   sinceFire  updates since the last fire with no reset() in between (-1: none)
\*   fireR      refractoryPeriod when that fire happened
\*   ops        calls other than update() so far (0: only update() was called)
\*   opsAfter   those of them made after the first update()
InitNode ==
    /\ \E c \in NodeConfigs, ctor \in {"Node", "NodeFactory"} :
          /\ ctor = "Node" => c.type # "INPUT"
          /\ node = IF ctor = "Node" THEN Node(c) ELSE NodeFactory_create(c)
    /\ hist = [pattern |-> <<>>, firstIn |-> 0, sameIn |-> TRUE,
               sinceFire |-> -1, fireR |-> 0, ops |-> 0, opsAfter |-> 0]
    /\ modules = <<>>
    /\ nodes = <<>>
    /\ connections = <<>>
    /\ moduleConnections = <<>>
    /\ incoming = <<>>
    /\ nodeModuleMap = <<>>
    /\ tickCount = 0
    /\ nonce = 0
    /\ nh = <<>>

UsesJitter(n) == n.cls \in {"BrainNode", "Node"}

\* node.update(inputSum)
NodeUpdate ==
    /\ Len(hist.pattern) < MaxTicks
    /\ \E s \in InputSums, jitter \in {0, 1}, gen \in Gens :
          /\ node.cls # "InputNode" => gen = NoGen
          /\ node.cls = "InputNode" => s = ONE \div 2 /\ jitter = 0
          /\ LET n2 == Update(node, s, jitter, gen)
                 fired == n2.isFiring
             IN  /\ ~(UsesJitter(node) /\ fired) => jitter = 0
                 /\ node' = n2
                 /\ hist' = [hist EXCEPT
                       !.pattern = Append(@, IF fired THEN 1 + jitter ELSE 0),
                       !.firstIn = IF hist.pattern = <<>> THEN s ELSE @,
                       !.sameIn = @ /\ (hist.pattern = <<>> \/ hist.firstIn = s),
                       !.sinceFire = IF fired THEN 0
                                     ELSE IF @ = -1 THEN -1 ELSE @ + 1,
                       !.fireR = IF fired THEN node.refractoryPeriod ELSE @]

\* node.setInput(val)
NodeSetInput ==
    /\ hist.ops < MaxOps
    /\ \E v \in SetInputVals : node' = SetInput(node, v)
    /\ hist' = [hist EXCEPT !.ops = @ + 1,
                            !.opsAfter = IF hist.pattern # <<>> THEN @ + 1 ELSE @]

\* node.reset()
NodeReset ==
    /\ hist.ops < MaxOps
    /\ node' = Reset(node)
    /\ hist' = [hist EXCEPT !.ops = @ + 1, !.sinceFire = -1,
                            !.opsAfter = IF hist.pattern # <<>> THEN @ + 1 ELSE @]

\* updateModule(id, newConfig) reaching the node with a parameter change.
NodeSetParams ==
    /\ hist.ops < MaxOps
    /\ node.cls # "Node"
    /\ \E c \in ParamConfigs : node' = UpdateNodeParams(node, c)
    /\ hist' = [hist EXCEPT !.ops = @ + 1,
                            !.opsAfter = IF hist.pattern # <<>> THEN @ + 1 ELSE @]

NextNode ==
    /\ NodeUpdate \/ NodeSetInput \/ NodeReset \/ NodeSetParams
    /\ UNCHANGED netVars

SpecNode == InitNode /\ [][NextNode]_vars

\* ------------------------------------------------------------------ ids and maps

\* Ids are strings, modelled as sequences of one-character strings, so that
\* startsWith and the `${a}-${b}` templates are computed as the code does.
Hy == <<"-">>

\* String(i) for a one-digit number i.
Digit(i) == <<ToString(i)>>

\* s.startsWith(p)
StartsWith(s, p) == Len(p) <= Len(s) /\ SubSeq(s, 1, Len(p)) = p

\* The part of s before its first "-" (s.split('-')[0]).
RECURSIVE FirstPart(_)
FirstPart(s) ==
    IF s = <<>> \/ Head(s) = "-" THEN <<>> ELSE <<Head(s)>> \o FirstPart(Tail(s))

DigitValue == [c \in {"0", "1", "2", "3", "4", "5", "6", "7", "8", "9"} |->
                 CHOOSE i \in 0..9 : ToString(i) = c]

\* The value no parseInt result is equal to (NaN).
NaN == -1

\* parseInt(s): the value of the leading digits of s, NaN if there are none.
RECURSIVE ParseDigits(_, _)
ParseDigits(s, acc) ==
    IF s = <<>> \/ Head(s) \notin DOMAIN DigitValue THEN acc
    ELSE ParseDigits(Tail(s), 10 * acc + DigitValue[Head(s)])

ParseInt(s) ==
    IF s = <<>> \/ Head(s) \notin DOMAIN DigitValue THEN NaN ELSE ParseDigits(s, 0)

\* A Map without entries.
EmptyMap == [k \in {} |-> 0]

\* map.get(k) || d
MapGet(m, k, d) == IF k \in DOMAIN m THEN m[k] ELSE d

\* map.set(k, v)
MapSet(m, k, v) == [x \in DOMAIN m \cup {k} |-> IF x = k THEN v ELSE m[x]]

\* map.delete(k) for every k in K
MapDelete(m, K) == [x \in DOMAIN m \ K |-> m[x]]

\* Object.assign(target, source) / { ...target, ...source }
Assign(target, source) ==
    [k \in DOMAIN target \cup DOMAIN source |->
        IF k \in DOMAIN source THEN source[k] ELSE target[k]]

\* config.f || d for a number f
OptOr(c, f, d) == IF f \in DOMAIN c /\ c[f] # 0 THEN c[f] ELSE d

\* The object literal { f: c.f, ... } for f in fields, passed to a constructor:
\* a field c does not have is undefined there and takes the default.
Pick(c, fields) == [f \in DOMAIN c \cap fields |-> c[f]]

\* a / b for reals in fixed point, rounded toward zero.
Div(a, b) == IF a >= 0 THEN a \div b ELSE -((-a) \div b)

\* Math.abs
Abs(a) == IF a < 0 THEN -a ELSE a

Min(a, b) == IF a < b THEN a ELSE b

Max(a, b) == IF a > b THEN a ELSE b

\* The members of the set K of positions, in increasing order.
Ascending(K, n) ==
    LET F[i \in 0..n] ==
            IF i = 0 THEN <<>>
            ELSE IF i \in K THEN Append(F[i - 1], i) ELSE F[i - 1]
    IN  F[n]

\* The sequences of k pairwise distinct elements of the set S.
RECURSIVE Arrangements(_, _)
Arrangements(S, k) ==
    IF k = 0 THEN {<<>>}
    ELSE UNION { { <<x>> \o a : a \in Arrangements(S \ {x}, k - 1) } : x \in S }

\* The elements of a sequence.
Range(seq) == { seq[i] : i \in DOMAIN seq }

\* ------------------------------------------------------------------ NeuralNet

\* The net as one value: the fields of NeuralNet, the nonce counter, and for
\* the call in progress `created`, the number of connections at the tail of
\* `connections` that it has added, and `random`, the outcome of Math.random()
\* it computes its weights from.
Net ==
    [ modules |-> modules, nodes |-> nodes, connections |-> connections,
      moduleConnections |-> moduleConnections, incoming |-> incoming,
      nodeModuleMap |-> nodeModuleMap, tickCount |-> tickCount,
      nonce |-> nonce, created |-> 0, random |-> ONE \div 4 ]

\* new NeuralNet()
NewNet ==
    [ modules |-> <<>>, nodes |-> <<>>, connections |-> <<>>,
      moduleConnections |-> EmptyMap, incoming |-> EmptyMap,
      nodeModuleMap |-> EmptyMap, tickCount |-> 0, nonce |-> 0, created |-> 0,
      random |-> ONE \div 4 ]

\* Position of the entry with this id in a Map kept as a sequence (0: none).
IndexOf(seq, id) ==
    IF \E i \in DOMAIN seq : seq[i].id = id
    THEN CHOOSE i \in DOMAIN seq : seq[i].id = id
    ELSE 0

\* map.has(id)
Has(seq, id) == \E i \in DOMAIN seq : seq[i].id = id

\* map.get(id), for an id the map has
Get(seq, id) == seq[IndexOf(seq, id)]

\* map.set(e.id, e): replaces in place, or appends a new key
Put(seq, e) ==
    IF Has(seq, e.id) THEN [seq EXCEPT ![IndexOf(seq, e.id)] = e] ELSE Append(seq, e)

\* map.delete(id) for every id in ids
Remove(seq, ids) == SelectSeq(seq, LAMBDA e : e.id \notin ids)

\* The node that `new` builds for a net: the class NodeFactory picks, with its
\* id.
NetNode(config) == NodeFactory_create(config) @@ [id |-> config.id]

\* The Dale's-principle tag and the firing-rate average of a node: fields that
\* NeuralNet reads and writes on BaseNode; the tag is the one the node was
\* configured with and never changes, the average starts at 0.
DaleFields(config) ==
    [ neuronType |-> Opt(config, "neuronType", "UNDEFINED"),
      averageFiringRate |-> 0 ]

\* NeuralNet.addNode
addNode(N, config) ==
    [N EXCEPT !.nodes = Put(@, NetNode(config) @@ DaleFields(config)),
              !.incoming = MapSet(@, config.id, <<>>)]

\* The positions of the connections whose target is the node k, in order.
ConnectionsInto(conns, k) ==
    Ascending({ i \in DOMAIN conns : conns[i].targetId = k }, Len(conns))

\* rebuildIncomingMap with the incoming lists left as they were.
rebuildIncomingMap_Stale(N) == N

\* NeuralNet.rebuildIncomingMap
rebuildIncomingMap(N) ==
    [N EXCEPT !.incoming =
        [k \in { N.nodes[i].id : i \in DOMAIN N.nodes }
               \cup { N.connections[i].targetId : i \in DOMAIN N.connections } |->
            ConnectionsInto(N.connections, k)]]

\* normalizeSustainedWeights with the gain fixed at 3.0 whatever the module sets.
normalizeSustainedWeights_DefaultGain(N, nodeId) ==
    IF nodeId \notin DOMAIN N.nodeModuleMap THEN N
    ELSE IF ~Has(N.modules, N.nodeModuleMap[nodeId]) THEN N
    ELSE
      LET module == Get(N.modules, N.nodeModuleMap[nodeId])
          inc == MapGet(N.incoming, nodeId, <<>>)
      IN  IF module.type # "SUSTAINED_OUTPUT" \/ ~Has(N.nodes, nodeId) \/ Len(inc) = 0
          THEN N
          ELSE [N EXCEPT !.connections =
                   [i \in DOMAIN @ |->
                       IF i \in Range(inc)
                       THEN [@[i] EXCEPT !.weight = Div(3 * ONE, Len(inc))]
                       ELSE @[i]]]

\* NeuralNet.normalizeSustainedWeights
normalizeSustainedWeights(N, nodeId) ==
    IF nodeId \notin DOMAIN N.nodeModuleMap THEN N
    ELSE IF ~Has(N.modules, N.nodeModuleMap[nodeId]) THEN N
    ELSE
      LET module == Get(N.modules, N.nodeModuleMap[nodeId])
          inc == MapGet(N.incoming, nodeId, <<>>)
          gain == Opt(module, "gain", 3 * ONE)
      IN  IF module.type # "SUSTAINED_OUTPUT" \/ ~Has(N.nodes, nodeId) \/ Len(inc) = 0
          THEN N
          ELSE [N EXCEPT !.connections =
                   [i \in DOMAIN @ |->
                       IF i \in Range(inc)
                       THEN [@[i] EXCEPT !.weight = Div(gain, Len(inc))]
                       ELSE @[i]]]

\* NeuralNet.addConnection
addConnection(N, config) ==
    LET at == Len(N.connections) + 1
        N1 == [N EXCEPT
                 !.connections = Append(@, config),
                 !.incoming = MapSet(@, config.targetId,
                                  Append(MapGet(@, config.targetId, <<>>), at)),
                 !.created = @ + 1]
    IN  normalizeSustainedWeights(N1, config.targetId)

\* this.connections = this.connections.filter(...), K being the positions the
\* filter keeps; `created` follows the connections the call in progress added.
filterConnections(N, K) ==
    LET n == Len(N.connections)
        kept == Ascending(K, n)
    IN  [N EXCEPT !.connections = [j \in DOMAIN kept |-> N.connections[kept[j]]],
                  !.created = Cardinality({ i \in K : i > n - N.created })]

\* Array.from(this.nodes.values()).filter(n => n.id.startsWith(modId + '-'))
NodesWithPrefix(N, modId) ==
    SelectSeq(N.nodes, LAMBDA n : StartsWith(n.id, modId \o Hy))

\* NeuralNet.getModuleNodes: the nodes whose id has the module's prefix (the
\* sort by id that follows decides no result the model reads).
getModuleNodes(N, moduleId) == NodesWithPrefix(N, moduleId)

\* ------------------------------------------------------------------ random draws

\* The outcomes of Math.random() the model draws: one value in each half of
\* the open interval (0, 1).  A call computes its weights from one outcome
\* (N.random); its choices of nodes are drawn freely.
Math_random == { ONE \div 4, (3 * ONE) \div 4 }

\* nodeModuleMap.get(id), <<>> standing for undefined
ModuleOf(N, nodeId) == MapGet(N.nodeModuleMap, nodeId, <<>>)

\* ------------------------------------------------------------------ rewireInternalConnections

\* The weight rewireInternalConnections gives the edge source -> target.
InternalWeight(N, module, source, targetId) ==
    LET connectionsPerNode == OptOr(module, "synapsesPerNode", 2)
        targetPercentage == Opt(module, "initialWeightModifier", ONE \div 5)
        currentIncoming == Len(MapGet(N.incoming, targetId, <<>>))
        estimatedTotalInputs == currentIncoming + connectionsPerNode
        idealWeight == Min((ONE * ONE) \div (Max(1, estimatedTotalInputs) * targetPercentage),
                           ONE \div 2)
    IN  IF source.neuronType = "EXCITATORY"
        THEN Mul(idealWeight, ONE \div 2 + N.random)
        ELSE -Mul(3 * idealWeight, ONE \div 2 + N.random)

\* The loop `for (k = 0; k < count; k++)` of rewireInternalConnections for one
\* source, from its k-th target on; S is the set of nets the draws so far can
\* have produced.
RECURSIVE RewireTargets(_, _, _, _, _)
RewireTargets(S, module, source, targets, k) ==
    IF k > Len(targets) THEN S
    ELSE RewireTargets(
            { addConnection(N, [ id |-> <<"c", source.id, targets[k], k - 1>>,
                                 sourceId |-> source.id,
                                 targetId |-> targets[k],
                                 weight |-> InternalWeight(N, module, source, targets[k]) ]) :
                N \in S },
            module, source, targets, k + 1)

\* nodes.forEach(source => ...) of rewireInternalConnections, from the i-th
\* node on.  The candidates are shuffled, or sorted by distance and then taken
\* nearest-first or at random as the leak roll decides; the model carries no
\* coordinates, so the targets are any `count` distinct candidates in any
\* order.
RECURSIVE RewireSources(_, _, _, _)
RewireSources(S, module, moduleNodes, i) ==
    IF i > Len(moduleNodes) THEN S
    ELSE
      LET source == moduleNodes[i]
          candidates == { moduleNodes[j].id : j \in DOMAIN moduleNodes } \ {source.id}
          count == Min(OptOr(module, "synapsesPerNode", 2), Cardinality(candidates))
      IN  RewireSources(
              UNION { RewireTargets({N}, module, source, targets, 1) :
                        N \in S, targets \in Arrangements(candidates, count) },
              module, moduleNodes, i + 1)

\* NeuralNet.rewireInternalConnections: the nets it can leave.
rewireInternalConnections(N, moduleId) ==
    IF ~Has(N.modules, moduleId) THEN {N}
    ELSE
      LET module == Get(N.modules, moduleId)
          keep == { i \in DOMAIN N.connections :
                      ~( ModuleOf(N, N.connections[i].sourceId) = moduleId
                         /\ ModuleOf(N, N.connections[i].targetId) = moduleId ) }
          N1 == rebuildIncomingMap(filterConnections(N, keep))
      IN  RewireSources({N1}, module, NodesWithPrefix(N1, moduleId), 1)

\* ------------------------------------------------------------------ addModule

\* The node parameters addModule copies from the module descriptor.
NodeParams == {"decay", "refractoryPeriod", "threshold", "bias", "maxPotential"}

\* addModule's loop over the nodes of a BRAIN module, from node i on; each
\* node is INHIBITORY or EXCITATORY as Math.random() < 0.2 decides.
RECURSIVE AddBrainNodes(_, _, _)
AddBrainNodes(S, config, i) ==
    IF i >= config.nodeCount THEN S
    ELSE AddBrainNodes(
            { [ addNode(N, Pick(config, NodeParams) @@
                           [ id |-> config.id \o Hy \o Digit(i),
                             type |-> "HIDDEN",
                             neuronType |-> nType,
                             activationType |-> Opt(config, "activationType", "PULSE") ])
                EXCEPT !.nodeModuleMap = MapSet(@, config.id \o Hy \o Digit(i), config.id) ] :
                N \in S, nType \in {"INHIBITORY", "EXCITATORY"} },
            config, i + 1)

\* addModule's loop over the concepts of a CONCEPT module, from concept i on.
RECURSIVE AddConceptNodes(_, _, _)
AddConceptNodes(N, config, i) ==
    IF i > Len(Opt(config, "concepts", <<>>)) THEN N
    ELSE
      LET nodeId == config.id \o Hy \o config.concepts[i]
          N1 == addNode(N, Pick(config, NodeParams \ {"decay"}) @@
                           [ id |-> nodeId,
                             type |-> "CONCEPT",
                             activationType |-> "PULSE",
                             decay |-> OptOr(config, "decay", ONE \div 10) ])
      IN  AddConceptNodes([N1 EXCEPT !.nodeModuleMap = MapSet(@, nodeId, config.id)],
                          config, i + 1)

\* The id of the node in column d, row i of a column module.
ColumnNodeId(id, d, i) == id \o Hy \o Digit(d) \o Hy \o Digit(i)

\* addModule's loop `for (i = 0; i < nodeCount; i++)` creating column d.
RECURSIVE AddColumnNodes(_, _, _, _, _, _)
AddColumnNodes(N, config, nodeType, activationType, d, i) ==
    IF i >= config.nodeCount THEN N
    ELSE
      LET nodeId == ColumnNodeId(config.id, d, i)
          N1 == addNode(N, Pick(config, NodeParams \cup {"inputFrequency"}) @@
                           [ id |-> nodeId,
                             type |-> nodeType,
                             activationType |-> activationType ])
      IN  AddColumnNodes([N1 EXCEPT !.nodeModuleMap = MapSet(@, nodeId, config.id)],
                         config, nodeType, activationType, d, i + 1)

\* addModule's wiring of column d - 1 into column d, from the k-th pair
\* (currI, prevI) on; the weight is (Math.random() * 2 - 1) * 0.5.
RECURSIVE WireColumn(_, _, _, _)
WireColumn(S, config, d, k) ==
    IF k >= config.nodeCount * config.nodeCount THEN S
    ELSE
      LET currI == k \div config.nodeCount
          prevI == k % config.nodeCount
          srcId == ColumnNodeId(config.id, d - 1, prevI)
          tgtId == ColumnNodeId(config.id, d, currI)
      IN  WireColumn(
              { addConnection(N, [ id |-> <<"c", srcId, tgtId>>,
                                   sourceId |-> srcId,
                                   targetId |-> tgtId,
                                   weight |-> Mul(2 * N.random - ONE, ONE \div 2) ]) :
                  N \in S },
              config, d, k + 1)

\* addModule's loop over the columns of an INPUT / OUTPUT / SUSTAINED_OUTPUT /
\* LAYER module, from column d on.
RECURSIVE AddColumns(_, _, _, _, _)
AddColumns(S, config, nodeType, activationType, d) ==
    IF d >= OptOr(config, "depth", 1) THEN S
    ELSE
      LET S1 == { AddColumnNodes(N, config, nodeType, activationType, d, 0) : N \in S }
      IN  AddColumns(IF d > 0 THEN WireColumn(S1, config, d, 0) ELSE S1,
                     config, nodeType, activationType, d + 1)

\* NeuralNet.addModule: the nets it can leave.
addModule(N, config0) ==
    LET config1 == IF config0.type = "BRAIN" /\ "hebbianLearning" \notin DOMAIN config0
                   THEN Assign(config0, [hebbianLearning |-> TRUE,
                                         learningRate |-> ONE \div 100])
                   ELSE config0
        config == IF config1.type = "BRAIN"
                  THEN Assign([isLocalized |-> FALSE, localizationLeak |-> 0], config1)
                  ELSE config1
        N1 == [N EXCEPT !.modules = Put(@, config)]
    IN  CASE config.type = "BRAIN" ->
               UNION { rewireInternalConnections(N2, config.id) :
                         N2 \in AddBrainNodes({N1}, config, 0) }
          [] config.type = "CONCEPT" -> { AddConceptNodes(N1, config, 1) }
          [] config.type = "LEARNED_OUTPUT" -> {N1}
          [] config.type \notin {"BRAIN", "CONCEPT", "LEARNED_OUTPUT"} ->
               AddColumns({N1}, config,
                          CASE config.type = "INPUT" -> "INPUT"
                            [] config.type \in {"OUTPUT", "SUSTAINED_OUTPUT"} -> "OUTPUT"
                            [] config.type = "LAYER" -> "INTERPRETATION"
                            [] OTHER -> "HIDDEN",
                          IF config.type = "SUSTAINED_OUTPUT" THEN "SUSTAINED"
                          ELSE Opt(config, "activationType", "PULSE"),
                          0)

\* ------------------------------------------------------------------ removeModule, disconnectModules

\* The positions of the connections whose source and target are both nodes.
Attached(N) ==
    { i \in DOMAIN N.connections :
        Has(N.nodes, N.connections[i].sourceId) /\ Has(N.nodes, N.connections[i].targetId) }

\* NeuralNet.removeModule
removeModule(N, moduleId) ==
    IF ~Has(N.modules, moduleId) THEN N
    ELSE
      LET nodesToRemove == { n.id : n \in Range(NodesWithPrefix(N, moduleId)) }
          N1 == [N EXCEPT !.nodes = Remove(@, nodesToRemove),
                          !.incoming = MapDelete(@, nodesToRemove),
                          !.nodeModuleMap = MapDelete(@, nodesToRemove)]
          N2 == rebuildIncomingMap(filterConnections(N1, Attached(N1)))
      IN  [N2 EXCEPT
             !.modules = Remove(@, {moduleId}),
             !.moduleConnections =
                 MapDelete(@, { key \in DOMAIN @ :
                                  @[key].sourceId = moduleId \/ @[key].targetId = moduleId })]

\* disconnectModules that removes nothing.
disconnectModules_Keep(N, modId1, modId2) == N

\* disconnectModules that looks at one direction only.
disconnectModules_OneWay(N, modId1, modId2) ==
    LET keep == { i \in DOMAIN N.connections :
                    ~( ModuleOf(N, N.connections[i].sourceId) = modId1
                       /\ ModuleOf(N, N.connections[i].targetId) = modId2 ) }
        N1 == rebuildIncomingMap(filterConnections(N, keep))
    IN  [N1 EXCEPT !.moduleConnections = MapDelete(@, { modId1 \o Hy \o modId2 })]

\* NeuralNet.disconnectModules
disconnectModules(N, modId1, modId2) ==
    LET keep == { i \in DOMAIN N.connections :
                    LET srcMod == ModuleOf(N, N.connections[i].sourceId)
                        tgtMod == ModuleOf(N, N.connections[i].targetId)
                    IN  ~( (srcMod = modId1 /\ tgtMod = modId2)
                           \/ (srcMod = modId2 /\ tgtMod = modId1) ) }
        N1 == rebuildIncomingMap(filterConnections(N, keep))
    IN  [N1 EXCEPT !.moduleConnections =
            MapDelete(@, { modId1 \o Hy \o modId2, modId2 \o Hy \o modId1 })]

\* ------------------------------------------------------------------ connectModules

\* getNodesForSide, the helper of connectModules
getNodesForSide(N, modId, side) ==
    IF ~Has(N.modules, modId) THEN <<>>
    ELSE
      LET mod == Get(N.modules, modId)
          allNodes == NodesWithPrefix(N, modId)
          targetCol == IF side = "LEFT" THEN 0 ELSE OptOr(mod, "depth", 1) - 1
      IN  IF mod.type = "BRAIN" \/ side = "ALL" THEN allNodes
          ELSE SelectSeq(allNodes,
                 LAMBDA n : ParseInt(FirstPart(SubSeq(n.id, Len(modId) + 2, Len(n.id))))
                            = targetCol)

\* (atan2(node.y - mod.y, node.x - mod.x) + PI) / (2 PI) for the i-th node of
\* the golden spiral, which lies at the angle i * PI * (3 - sqrt 5) around the
\* module's centre: 0.5, 0.881966, 0.263932, 0.645898.
SpiralLocation == <<ONE \div 2, 5292, 1584, 3875>>

\* NeuralNet.getRelativeLocation
getRelativeLocation(nd, mod, index, total) ==
    IF mod.type = "BRAIN"
    THEN LET i == ParseInt(SubSeq(nd.id, Len(mod.id) + 2, Len(nd.id)))
         IN  IF i + 1 \in DOMAIN SpiralLocation THEN SpiralLocation[i + 1] ELSE ONE \div 2
    ELSE IF total <= 1 THEN ONE \div 2
    ELSE (index * ONE) \div (total - 1)

\* NeuralNet.getRelativeDist
getRelativeDist(a, b, bothCircular) ==
    IF bothCircular /\ Abs(a - b) > ONE \div 2 THEN ONE - Abs(a - b) ELSE Abs(a - b)

\* The ids of preferredCandidates for the source at position srcIndex
\* (0-based) of sourceNodes.
PreferredCandidates(sourceMod, targetMod, sourceNodes, targetNodes, srcIndex, finalCoverage) ==
    LET srcLoc == getRelativeLocation(sourceNodes[srcIndex + 1], sourceMod,
                                      srcIndex, Len(sourceNodes))
        safeCoverage == Max(finalCoverage, 5)
        threshold == (safeCoverage * ONE) \div 200
        bothCircular == sourceMod.type = "BRAIN" /\ targetMod.type = "BRAIN"
        near == { targetNodes[t].id : t \in
                    { t \in DOMAIN targetNodes :
                        getRelativeDist(srcLoc,
                            getRelativeLocation(targetNodes[t], targetMod,
                                                t - 1, Len(targetNodes)),
                            bothCircular) <= threshold } }
    IN  IF near = {} THEN { targetNodes[t].id : t \in DOMAIN targetNodes } ELSE near

\* The while loop of connectModules for one source: the sequences of targets
\* it can end with, `connected` being the targets so far.  An attempt draws
\* from the preferred pool when roll > localizer, which some outcome of the
\* roll gives for every localizer < 100, and from all candidates otherwise,
\* which some outcome gives when localizer > 0.
RECURSIVE DrawTargets(_, _, _, _, _, _, _, _)
DrawTargets(connected, attempts, srcId, candidates, preferred, localizer, connectionsPerSource, maxAttempts) ==
    IF ~(Len(connected) < connectionsPerSource /\ attempts < maxAttempts)
    THEN {connected}
    ELSE
      LET pool == IF localizer < 100
                  THEN preferred \cup (IF localizer > 0 THEN candidates ELSE {})
                  ELSE candidates
      IN  IF pool = {}
          THEN DrawTargets(connected, attempts + 1, srcId, candidates, preferred,
                           localizer, connectionsPerSource, maxAttempts)
          ELSE UNION {
                 DrawTargets(IF tgt \in Range(connected) \/ tgt = srcId
                             THEN connected ELSE Append(connected, tgt),
                             attempts + 1, srcId, candidates, preferred,
                             localizer, connectionsPerSource, maxAttempts) :
                 tgt \in pool }

\* The weight connectModules gives an edge from src, r being Math.random().
CrossWeight(sourceIsSustainedOutput, src, r) ==
    IF sourceIsSustainedOutput
    THEN (IF src.neuronType = "EXCITATORY" THEN ONE ELSE -ONE)
    ELSE (IF src.neuronType = "EXCITATORY" THEN Mul(r, ONE \div 2)
          ELSE -Mul(r, (3 * ONE) \div 2))

\* The addConnection calls of connectModules for one source and the targets
\* drawn for it, from the k-th on.
RECURSIVE ConnectTargets(_, _, _, _, _)
ConnectTargets(S, sourceIsSustainedOutput, src, targets, k) ==
    IF k > Len(targets) THEN S
    ELSE ConnectTargets(
            { addConnection(N, [ id |-> <<"c", src.id, targets[k]>>,
                                 sourceId |-> src.id,
                                 targetId |-> targets[k],
                                 weight |-> CrossWeight(sourceIsSustainedOutput, src,
                                                        N.random) ]) :
                N \in S },
            sourceIsSustainedOutput, src, targets, k + 1)

\* sourceNodes.forEach((src, srcIndex) => ...) of connectModules, from the
\* source at position i on.
RECURSIVE ConnectSources(_, _, _, _, _, _, _)
ConnectSources(S, sourceMod, targetMod, sourceNodes, targetNodes, call, i) ==
    IF i > Len(sourceNodes) THEN S
    ELSE
      LET src == sourceNodes[i]
          candidates == { targetNodes[t].id : t \in DOMAIN targetNodes }
          preferred == IF call.localizer < 100
                       THEN PreferredCandidates(sourceMod, targetMod, sourceNodes,
                                                targetNodes, i - 1, call.coverage)
                       ELSE {}
          drawn == DrawTargets(<<>>, 0, src.id, candidates, preferred, call.localizer,
                               call.connectionsPerSource, 2 * call.connectionsPerSource)
      IN  ConnectSources(
              UNION { ConnectTargets({N}, sourceMod.type = "SUSTAINED_OUTPUT",
                                     src, targets, 1) :
                        N \in S, targets \in drawn },
              sourceMod, targetMod, sourceNodes, targetNodes, call, i + 1)

\* NeuralNet.connectModules: the nets it can leave.
connectModules(N, sourceId, targetId, srcSide, tgtSide, coverage, localizer) ==
    LET N0 == disconnectModules(N, sourceId, targetId)
        sourceNodes == getNodesForSide(N0, sourceId, srcSide)
        targetNodes == getNodesForSide(N0, targetId, tgtSide)
    IN  IF Len(sourceNodes) = 0 \/ Len(targetNodes) = 0 \/ ~Has(N0.modules, targetId)
        THEN {N0}
        ELSE
          LET targetMod == Get(N0.modules, targetId)
              finalCoverage == Max(1, Min(100, coverage))
              connectionsPerSource ==
                  Max(1, (Len(targetNodes) * finalCoverage) \div 100)
              N1 == [N0 EXCEPT !.moduleConnections =
                        MapSet(@, sourceId \o Hy \o targetId,
                               [ sourceId |-> sourceId,
                                 targetId |-> targetId,
                                 coverage |-> finalCoverage,
                                 localizer |-> localizer,
                                 sides |-> [src |-> srcSide, tgt |-> tgtSide] ])]
              localize == targetMod.type = "BRAIN" /\ localizer < 100
                          /\ ~Opt(targetMod, "isLocalized", FALSE)
              S2 == IF localize
                    THEN rewireInternalConnections(
                            [N1 EXCEPT !.modules =
                                Put(@, Assign(targetMod, [isLocalized |-> TRUE]))],
                            targetId)
                    ELSE {N1}
              sourceMod == Get(N0.modules, sourceId)
          IN  ConnectSources(S2, sourceMod, targetMod, sourceNodes, targetNodes,
                             [ coverage |-> finalCoverage, localizer |-> localizer,
                               connectionsPerSource |-> connectionsPerSource ],
                             1)

\* ------------------------------------------------------------------ populateLearnedOutput

\* populateLearnedOutput's loop over the source's concepts, from concept i on.
RECURSIVE AddLearnedNodes(_, _, _, _)
AddLearnedNodes(N, target, concepts, i) ==
    IF i > Len(concepts) THEN N
    ELSE
      LET nodeId == target.id \o Hy \o <<"n", "o", "d", "e">> \o Hy \o concepts[i]
          N1 == addNode(N, [ id |-> nodeId,
                             threshold |-> OptOr(target, "threshold", ONE \div 2),
                             decay |-> ONE \div 10,
                             activationType |-> "SUSTAINED",
                             refractoryPeriod |-> 2,
                             type |-> "LEARNED" ])
      IN  AddLearnedNodes([N1 EXCEPT !.nodeModuleMap = MapSet(@, nodeId, target.id)],
                          target, concepts, i + 1)

\* NeuralNet.populateLearnedOutput
populateLearnedOutput(N, targetId, sourceConceptId) ==
    IF ~Has(N.modules, targetId) \/ ~Has(N.modules, sourceConceptId) THEN N
    ELSE
      LET target == Get(N.modules, targetId)
          source == Get(N.modules, sourceConceptId)
          nodeIdsToRemove == { n.id : n \in { m \in Range(N.nodes) :
                                                ModuleOf(N, m.id) = targetId } }
          N1 == [N EXCEPT !.nodes = Remove(@, nodeIdsToRemove),
                          !.nodeModuleMap = MapDelete(@, nodeIdsToRemove)]
          N2 == AddLearnedNodes(N1, target, source.concepts, 1)
      IN  IF target.type # "LEARNED_OUTPUT" \/ source.type # "CONCEPT"
             \/ "concepts" \notin DOMAIN source
          THEN N
          ELSE [N2 EXCEPT !.modules =
                   Put(@, Assign(target, [nodeCount |-> Len(source.concepts)]))]

\* ------------------------------------------------------------------ updateModule

\* ensureConnection's loop `for (i = 0; i < countToConnect; i++)` for one
\* source, from the k-th target on; `existing` holds the connection ids there
\* were when ensureConnection started.
RECURSIVE EnsureTargets(_, _, _, _, _)
EnsureTargets(S, existing, srcId, targets, k) ==
    IF k > Len(targets) THEN S
    ELSE EnsureTargets(
            IF <<"c", srcId, targets[k]>> \in existing THEN S
            ELSE { addConnection(N, [ id |-> <<"c", srcId, targets[k]>>,
                                      sourceId |-> srcId,
                                      targetId |-> targets[k],
                                      weight |-> N.random ]) :
                     N \in S },
            existing, srcId, targets, k + 1)

\* srcNodes.forEach(src => ...) of ensureConnection, from the i-th source on.
\* potentialTargets is shuffled, or sorted by distance from the source; the
\* model carries no coordinates, so its first countToConnect entries are any
\* distinct targets in any order.
RECURSIVE EnsureSources(_, _, _, _, _, _)
EnsureSources(S, existing, srcIds, tgtIds, coverage, i) ==
    IF i > Len(srcIds) THEN S
    ELSE
      LET countToConnect == Max(1, (Len(tgtIds) * coverage) \div 100)
      IN  EnsureSources(
              UNION { EnsureTargets({N}, existing, srcIds[i], targets, 1) :
                        N \in S, targets \in Arrangements(Range(tgtIds), countToConnect) },
              existing, srcIds, tgtIds, coverage, i + 1)

\* ensureConnection, the helper of updateModule: the nets it can leave.
ensureConnection(N, srcModId, tgtModId) ==
    LET srcNodes == NodesWithPrefix(N, srcModId)
        tgtNodes == NodesWithPrefix(N, tgtModId)
        existing == { N.connections[i].id : i \in DOMAIN N.connections }
        forwardKey == srcModId \o Hy \o tgtModId
        reverseKey == tgtModId \o Hy \o srcModId
        coverage == IF forwardKey \in DOMAIN N.moduleConnections
                    THEN N.moduleConnections[forwardKey].coverage
                    ELSE IF reverseKey \in DOMAIN N.moduleConnections
                    THEN N.moduleConnections[reverseKey].coverage
                    ELSE 100
    IN  IF ~Has(N.modules, srcModId) \/ ~Has(N.modules, tgtModId)
           \/ Len(srcNodes) = 0 \/ Len(tgtNodes) = 0
        THEN {N}
        ELSE EnsureSources({N}, existing,
                           [i \in DOMAIN srcNodes |-> srcNodes[i].id],
                           [i \in DOMAIN tgtNodes |-> tgtNodes[i].id],
                           coverage, 1)

\* The first module other than `id`, in the order of this.modules, whose
\* prefix the node id has (<<>>: none).
OtherOwner(N, id, nodeId) ==
    LET owners == { m \in DOMAIN N.modules :
                      N.modules[m].id # id /\ StartsWith(nodeId, N.modules[m].id \o Hy) }
    IN  IF owners = {} THEN <<>>
        ELSE N.modules[CHOOSE m \in owners : \A o \in owners : m <= o].id

\* updateModule's second pass over this.connections: the neighbours it adds to
\* neighborsOut (out = TRUE) or neighborsIn (out = FALSE), in the order added.
Neighbors(N, id, out) ==
    LET F[i \in 0..Len(N.connections)] ==
          IF i = 0 THEN <<>>
          ELSE
            LET c == N.connections[i]
                isSource == StartsWith(c.sourceId, id \o Hy)
                isTarget == StartsWith(c.targetId, id \o Hy)
                other == IF out THEN OtherOwner(N, id, c.targetId)
                         ELSE OtherOwner(N, id, c.sourceId)
                applies == IF out THEN isSource /\ ~isTarget ELSE isTarget /\ ~isSource
            IN  IF applies /\ other # <<>> /\ other \notin Range(F[i - 1])
                THEN Append(F[i - 1], other)
                ELSE F[i - 1]
    IN  F[Len(N.connections)]

\* neighborsOut.forEach(tgt => ensureConnection(id, tgt)), or
\* neighborsIn.forEach(src => ensureConnection(src, id)), from the k-th on.
RECURSIVE EnsureNeighbors(_, _, _, _, _)
EnsureNeighbors(S, id, others, out, k) ==
    IF k > Len(others) THEN S
    ELSE EnsureNeighbors(
            UNION { IF out THEN ensureConnection(N, id, others[k])
                    ELSE ensureConnection(N, others[k], id) : N \in S },
            id, others, out, k + 1)

\* this.incoming.clear() followed by the loop that files every connection
\* under its target (updateModule, after regeneration).
incomingFromConnections(N) ==
    [N EXCEPT !.incoming =
        [k \in { N.connections[i].targetId : i \in DOMAIN N.connections } |->
            ConnectionsInto(N.connections, k)]]

\* updateModule from "1. Remove old nodes" on: regeneration, pruning of the
\* connections, repair of the external connectivity.
Regenerate(N, id, mergedConfig) ==
    LET idsToRemove == { n.id : n \in Range(NodesWithPrefix(N, id)) }
        N1 == [N EXCEPT !.nodes = Remove(@, idsToRemove),
                        !.incoming = MapDelete(@, idsToRemove),
                        !.nodeModuleMap = MapDelete(@, idsToRemove)]
        S3 == { incomingFromConnections(filterConnections(N2, Attached(N2))) :
                  N2 \in addModule(N1, mergedConfig) }
    IN  UNION { EnsureNeighbors(
                   EnsureNeighbors({N3}, id, Neighbors(N3, id, TRUE), TRUE, 1),
                   id, Neighbors(N3, id, FALSE), FALSE, 1) :
                N3 \in S3 }

\* normalizeSustainedWeights for each of the nodes, in order, from the i-th on.
RECURSIVE NormalizeAll(_, _, _)
NormalizeAll(N, nodeIds, i) ==
    IF i > Len(nodeIds) THEN N
    ELSE NormalizeAll(normalizeSustainedWeights(N, nodeIds[i]), nodeIds, i + 1)

\* updateModule's branch for a change that needs no regeneration: the
\* parameters of the module's nodes, the internal rewiring, the sustained
\* weights.  (renameModule, which it calls for a new name, writes labels.)
UpdateParams(N, id, newConfig) ==
    LET module == Get(N.modules, id)
        needsRewiring == DOMAIN newConfig \cap
                           {"isLocalized", "localizationLeak", "synapsesPerNode",
                            "initialWeightModifier"} # {}
        N1 == [N EXCEPT !.nodes =
                  [i \in DOMAIN @ |->
                      IF StartsWith(@[i].id, id \o Hy)
                      THEN UpdateNodeParams(@[i], newConfig) ELSE @[i]]]
        S2 == IF needsRewiring THEN rewireInternalConnections(N1, id) ELSE {N1}
    IN  IF DOMAIN newConfig \cap {"maxPotential", "gain"} # {}
           /\ module.type = "SUSTAINED_OUTPUT"
        THEN { NormalizeAll(N2, [i \in DOMAIN NodesWithPrefix(N2, id) |->
                                    NodesWithPrefix(N2, id)[i].id], 1) : N2 \in S2 }
        ELSE S2

\* updateModule that regenerates the module for a change of geometry as well.
updateModule_RegenOnGeometry(N, id, newConfig) ==
    IF ~Has(N.modules, id) THEN {N}
    ELSE
      LET module == Get(N.modules, id)
          Differs(key) == key \in DOMAIN newConfig
                          /\ (key \notin DOMAIN module \/ newConfig[key] # module[key])
          regen == \E key \in {"type", "nodeCount", "depth", "radius", "height", "width"} :
                      Differs(key)
          merged == Assign(module, newConfig)
          N1 == [N EXCEPT !.modules = Put(@, merged)]
      IN  IF regen THEN Regenerate(N1, id, merged) ELSE UpdateParams(N1, id, newConfig)

\* NeuralNet.updateModule: the nets it can leave.
updateModule(N, id, newConfig) ==
    IF ~Has(N.modules, id) THEN {N}
    ELSE
      LET module == Get(N.modules, id)
          Differs(key) == key \in DOMAIN newConfig
                          /\ (key \notin DOMAIN module \/ newConfig[key] # module[key])
          needsTopologyRegen == \E key \in {"type", "nodeCount", "depth"} : Differs(key)
          needsGeometryUpdate == \E key \in {"radius", "height", "width"} : Differs(key)
          merged == Assign(module, newConfig)
          N1 == [N EXCEPT !.modules = Put(@, merged)]
      IN  IF needsGeometryUpdate /\ ~needsTopologyRegen
          THEN (IF Opt(merged, "isLocalized", FALSE)
                THEN rewireInternalConnections(N1, id)
                ELSE {N1})
          ELSE IF ~needsTopologyRegen
          THEN UpdateParams(N1, id, newConfig)
          ELSE Regenerate(N1, id, merged)

\* ------------------------------------------------------------------ step

\* The values step() reads from a SIN or NOISE generator on a tick: a sample
\* in each half of [0, 1]; "hold" is a NOISE sensor keeping its last sample.
SensorSamples == { ONE \div 4, (3 * ONE) \div 4 }

\* step(), part 1: the states a sensor can be refreshed to.
RefreshSensor(n) ==
    LET fire(m) == [m EXCEPT !.isFiring = (m.activation > ONE \div 2)]
    IN  IF n.type # "INPUT" THEN {n}
        ELSE IF n.inputType = "SIN"
        THEN { fire([n EXCEPT !.activation = v, !.potential = v]) : v \in SensorSamples }
        ELSE IF n.inputType = "NOISE"
        THEN { fire([n EXCEPT !.activation = v, !.potential = v]) : v \in SensorSamples }
             \cup { fire([n EXCEPT !.potential = n.activation]) }
        ELSE { fire(n) }

\* The sequences that take their i-th element from choices[i].
RECURSIVE Choices(_)
Choices(choices) ==
    IF choices = <<>> THEN {<<>>}
    ELSE { <<x>> \o rest : x \in Head(choices), rest \in Choices(Tail(choices)) }

\* step(), part 2: what one incoming connection transmits (rawSignal).
RawSignal(N, nd, conn) ==
    LET sourceNode == Get(N.nodes, conn.sourceId)
        sourceModId == ModuleOf(N, conn.sourceId)
        isSourceSustainedOutput ==
            Has(N.modules, sourceModId)
            /\ Get(N.modules, sourceModId).type = "SUSTAINED_OUTPUT"
    IN  IF sourceNode.activationType = "SUSTAINED" /\ sourceModId # <<>>
           /\ isSourceSustainedOutput
        THEN (IF nd.activationType = "SUSTAINED"
              THEN (IF sourceNode.isFiring THEN conn.weight ELSE 0)
              ELSE (IF sourceNode.potential > conn.weight /\ sourceNode.isFiring
                    THEN conn.weight ELSE 0))
        ELSE Mul(sourceNode.activation, conn.weight)

\* isExternalBrain without the exemption of targets in SUSTAINED_OUTPUT modules.
IsExternalBrain_AnyTarget(N, nd, conn) ==
    LET sourceModId == ModuleOf(N, conn.sourceId)
        targetModId == ModuleOf(N, nd.id)
    IN  /\ sourceModId # <<>>
        /\ sourceModId # targetModId
        /\ Has(N.modules, sourceModId)
        /\ Get(N.modules, sourceModId).type = "BRAIN"

\* step(), part 2: whether the connection comes from another module that is a
\* BRAIN, into a node outside every SUSTAINED_OUTPUT module (isExternalBrain).
IsExternalBrain(N, nd, conn) ==
    LET sourceModId == ModuleOf(N, conn.sourceId)
        targetModId == ModuleOf(N, nd.id)
    IN  /\ sourceModId # <<>>
        /\ sourceModId # targetModId
        /\ Has(N.modules, sourceModId)
        /\ Get(N.modules, sourceModId).type = "BRAIN"
        /\ ~( Has(N.modules, targetModId)
              /\ Get(N.modules, targetModId).type = "SUSTAINED_OUTPUT" )

\* The sum of f over the set S of positions.
RECURSIVE SumOver(_, _)
SumOver(f, S) ==
    IF S = {} THEN 0
    ELSE LET i == CHOOSE i \in S : TRUE IN f[i] + SumOver(f, S \ {i})

\* step(), part 2: the input sum of a node that is not a sensor.
InputSum(N, nd) ==
    LET incomingConns == MapGet(N.incoming, nd.id, <<>>)
        live == { k \in DOMAIN incomingConns :
                    Has(N.nodes, N.connections[incomingConns[k]].sourceId) }
        raw == [k \in live |-> RawSignal(N, nd, N.connections[incomingConns[k]])]
        external == { k \in live :
                        IsExternalBrain(N, nd, N.connections[incomingConns[k]]) }
        group(k) == { j \in external :
                        ModuleOf(N, N.connections[incomingConns[j]].sourceId)
                        = ModuleOf(N, N.connections[incomingConns[k]].sourceId) }
        signal == [k \in live |->
                     IF k \in external THEN Div(raw[k], Cardinality(group(k)))
                     ELSE raw[k]]
    IN  SumOver(signal, live)

\* step(), part 3: the states one node can be in after node.update and the
\* update of its firing-rate average; N is the net the sums are read from.
UpdatedNode(N, n) ==
    LET alpha == ONE \div 100
        track(m) == [m EXCEPT !.averageFiringRate =
                        Mul(alpha, IF m.isFiring THEN ONE ELSE 0)
                        + Mul(ONE - alpha, m.averageFiringRate)]
    IN  IF n.type = "INPUT"
        THEN { track(Update(n, 0, 0, gen)) :
                 gen \in IF n.cls = "InputNode" /\ n.inputType # "PULSE"
                         THEN Gens ELSE {NoGen} }
        ELSE { track(Update(n, InputSum(N, n), jitter, NoGen)) : jitter \in {0, 1} }

\* NeuralNet.normalizeWeights applied to the nodes in order, from the i-th on.
RECURSIVE NormalizeWeights(_, _, _, _)
NormalizeWeights(N, nodeIds, targetSum, i) ==
    IF i > Len(nodeIds) THEN N
    ELSE
      LET inc == Range(MapGet(N.incoming, nodeIds[i], <<>>))
          currentSum == SumOver([k \in inc |-> Abs(N.connections[k].weight)], inc)
          scaled == [N EXCEPT !.connections =
                       [k \in DOMAIN @ |->
                           IF k \in inc /\ Abs(@[k].weight) > ONE \div 10
                           THEN [@[k] EXCEPT !.weight = Div(@ * targetSum, currentSum)]
                           ELSE @[k]]]
      IN  NormalizeWeights(IF inc # {} /\ currentSum > targetSum THEN scaled ELSE N,
                           nodeIds, targetSum, i + 1)

\* step(), synaptic scaling: the loop over this.modules, from the m-th on.
RECURSIVE SynapticScaling(_, _)
SynapticScaling(N, m) ==
    IF m > Len(N.modules) THEN N
    ELSE
      LET module == N.modules[m]
          on == module.type = "BRAIN" /\ "sustainability" \in DOMAIN module
                /\ Opt(module.sustainability, "synapticScaling", FALSE)
          moduleNodes == SelectSeq(N.nodes, LAMBDA n : StartsWith(n.id, module.id))
      IN  SynapticScaling(
              IF on /\ N.tickCount % OptOr(module.sustainability, "scalingPeriod", 100) = 0
              THEN NormalizeWeights(N, [i \in DOMAIN moduleNodes |-> moduleNodes[i].id],
                                    module.sustainability.targetSum, 1)
              ELSE N,
              m + 1)

\* step(), Hebbian learning: internalConns.forEach(conn => ...) for the module,
\* from the k-th internal connection on.  L holds the connections with the
\* weights as updated so far and the ids collected in connsToRemove.
RECURSIVE HebbianLoop(_, _, _, _, _)
HebbianLoop(L, N, module, internalConns, k) ==
    IF k > Len(internalConns) THEN L
    ELSE
      LET ci == internalConns[k]
          conn == L.connections[ci]
          src == Get(N.nodes, conn.sourceId)
          tgt == Get(N.nodes, conn.targetId)
          rate == OptOr(module, "learningRate", ONE \div 100)
          pruningThreshold == Opt(module, "pruningThreshold", ONE \div 20)
          boost == Mul(Mul(rate, src.activation), tgt.activation)
          delta == IF src.neuronType = "EXCITATORY" THEN boost
                   ELSE IF tgt.averageFiringRate > ONE \div 10
                   THEN -(ONE \div 1000)
                   ELSE ONE \div 1000
          C1 == [L.connections EXCEPT ![ci].weight = @ + delta]
          targetSum == IF "sustainability" \in DOMAIN module
                       THEN OptOr(module.sustainability, "targetSum", 3 * ONE)
                       ELSE 3 * ONE
          internalIncoming ==
              { i \in Range(MapGet(N.incoming, tgt.id, <<>>)) :
                  StartsWith(C1[i].sourceId, module.id) }
          currentTotal ==
              SumOver([i \in internalIncoming |-> Abs(C1[i].weight)], internalIncoming)
          taxed == currentTotal > targetSum /\ internalIncoming # {}
          tax == Div(boost, Cardinality(internalIncoming))
          C2 == IF taxed
                THEN [i \in DOMAIN C1 |->
                        IF i \in internalIncoming
                        THEN [C1[i] EXCEPT !.weight = @ - tax] ELSE C1[i]]
                ELSE C1
          weak == (IF taxed
                   THEN { C2[i].id : i \in { j \in internalIncoming :
                                               Abs(C2[j].weight) < pruningThreshold } }
                   ELSE {})
                  \cup (IF Abs(C2[ci].weight) < pruningThreshold THEN {C2[ci].id} ELSE {})
      IN  HebbianLoop(
              IF Has(N.nodes, conn.sourceId) /\ Has(N.nodes, conn.targetId)
              THEN [connections |-> C2, connsToRemove |-> L.connsToRemove \cup weak]
              ELSE L,
              N, module, internalConns, k + 1)

\* step(), regrowth: the loop `for (i = 0; i < toAdd; i++)`, from the i-th
\* connection on; source and target are drawn among the module's nodes, the
\* target again until it differs from the source.
RECURSIVE Regrow(_, _, _, _)
Regrow(S, moduleNodeIds, toAdd, i) ==
    IF i >= toAdd THEN S
    ELSE Regrow(
            { [ addConnection(N, [ id |-> <<"c", p[1], p[2], "t", N.nonce>>,
                                   sourceId |-> p[1],
                                   targetId |-> p[2],
                                   weight |-> Mul(N.random - ONE \div 2,
                                                  (2 * ONE) \div 5) ])
                EXCEPT !.nonce = @ + 1 ] :
                N \in S,
                p \in { q \in moduleNodeIds \X moduleNodeIds : q[1] # q[2] } },
            moduleNodeIds, toAdd, i + 1)

\* step(), part 3 for one module: Hebbian update, pruning and regrowth; the
\* nets it can leave.
LearnModule(N, moduleId) ==
    LET module == Get(N.modules, moduleId)
        internalConns ==
            Ascending({ i \in DOMAIN N.connections :
                          StartsWith(N.connections[i].sourceId, moduleId)
                          /\ StartsWith(N.connections[i].targetId, moduleId) },
                      Len(N.connections))
        L == HebbianLoop([connections |-> N.connections, connsToRemove |-> {}],
                         N, module, internalConns, 1)
        N1 == [N EXCEPT !.connections = L.connections]
        N2 == IF L.connsToRemove # {}
              THEN rebuildIncomingMap(
                      filterConnections(N1, { i \in DOMAIN N1.connections :
                                                N1.connections[i].id \notin L.connsToRemove }))
              ELSE N1
        regrowthRate == OptOr(module, "regrowthRate", 0)
        count == regrowthRate \div ONE
        chance == regrowthRate - count * ONE
        moduleNodeIds == { n.id : n \in Range(getModuleNodes(N2, moduleId)) }
    IN  IF ~(module.type = "BRAIN" /\ Opt(module, "hebbianLearning", FALSE)) THEN {N}
        ELSE IF regrowthRate > 0 /\ Cardinality(moduleNodeIds) > 1
        THEN UNION { Regrow({N2}, moduleNodeIds, toAdd, 0) :
                       toAdd \in {count} \cup (IF chance > 0 THEN {count + 1} ELSE {}) }
        ELSE {N2}

\* step(), part 3: this.modules.forEach(...), from the m-th module on.
RECURSIVE LearnModules(_, _, _)
LearnModules(S, moduleIds, m) ==
    IF m > Len(moduleIds) THEN S
    ELSE LearnModules(UNION { LearnModule(N, moduleIds[m]) : N \in S }, moduleIds, m + 1)

\* The nodes updated one after the other from the i-th on, each input sum
\* read from the net as the updates before it have left it.
RECURSIVE UpdatedInPlace(_, _, _)
UpdatedInPlace(S, i, n) ==
    IF i > n THEN S
    ELSE UpdatedInPlace(UNION { { [N EXCEPT !.nodes[i] = u] : u \in UpdatedNode(N, N.nodes[i]) } :
                                  N \in S },
                        i + 1, n)

\* step with the input sums computed during the pass that updates the nodes.
step_InPlace(N) ==
    LET N1 == [N EXCEPT !.tickCount = @ + 1]
        refreshed == Choices([i \in DOMAIN N1.nodes |-> RefreshSensor(N1.nodes[i])])
    IN  UNION {
          UNION { LearnModules({ SynapticScaling(after, 1) },
                               [m \in DOMAIN N1.modules |-> N1.modules[m].id], 1) :
                  after \in UpdatedInPlace({ [N1 EXCEPT !.nodes = sensed] }, 1, Len(sensed)) } :
          sensed \in refreshed }

\* NeuralNet.step: the nets it can leave.
step(N) ==
    LET N1 == [N EXCEPT !.tickCount = @ + 1]
        refreshed == Choices([i \in DOMAIN N1.nodes |-> RefreshSensor(N1.nodes[i])])
    IN  UNION {
          LET N2 == [N1 EXCEPT !.nodes = sensed]
              updated == Choices([i \in DOMAIN N2.nodes |-> UpdatedNode(N2, N2.nodes[i])])
          IN  UNION { LearnModules({ SynapticScaling([N2 EXCEPT !.nodes = after], 1) },
                                   [m \in DOMAIN N2.modules |-> N2.modules[m].id], 1) :
                      after \in updated } :
          sensed \in refreshed }

\* resetState with the potentials left as they were.
resetState_KeepPotential(N) ==
    [N EXCEPT !.nodes = [i \in DOMAIN @ |->
                            [@[i] EXCEPT !.activation = 0, !.refractoryTimer = 0]],
              !.tickCount = 0]

\* NeuralNet.resetState
resetState(N) ==
    [N EXCEPT !.nodes = [i \in DOMAIN @ |->
                            [@[i] EXCEPT !.potential = 0, !.activation = 0,
                                         !.refractoryTimer = 0]],
              !.tickCount = 0]

\* ------------------------------------------------------------------ the net, driven through its API

\* Calls made on one net of two modules.
MaxNetOps == 4

\* Calls made on one net of the training kit.
MaxTrainingOps == 6

\* step() calls made on one net.
MaxSteps == 2

\* The ids addModule is called with, in the order they are handed out; the
\* caller derives an id from the clock, so no id is handed out twice.
ModuleIds == << <<"a">>, <<"b">>, <<"c">> >>

\* The kinds of module a net is built from, in the order they are added.
Kits ==
    [ sensorBrain    |-> <<"INPUT", "BRAIN">>,
      brainActuator  |-> <<"BRAIN", "OUTPUT">>,
      brainSustained |-> <<"BRAIN", "SUSTAINED_OUTPUT">>,
      layerActuator  |-> <<"LAYER", "OUTPUT">>,
      training       |-> <<"CONCEPT", "CONCEPT", "LEARNED_OUTPUT">> ]

\* The descriptor the editor builds for the k-th module of a kit
\* (App.addModule; the concept lists come from the imported data).
ModuleConfig(kit, k) ==
    LET type == Kits[kit][k]
        common == [ id |-> ModuleIds[k], type |-> type, depth |-> 1,
                    activationType |-> "PULSE", threshold |-> ONE \div 2,
                    refractoryPeriod |-> 2, radius |-> 200, height |-> 600 ]
    IN  CASE type = "INPUT" -> Assign(common, [nodeCount |-> 1])
          [] type = "BRAIN" ->
               Assign(common, [nodeCount |-> 2, activationType |-> "SUSTAINED",
                               refractoryPeriod |-> 1, hebbianLearning |-> TRUE,
                               learningRate |-> ONE \div 100])
          [] type = "OUTPUT" -> Assign(common, [nodeCount |-> 2])
          [] type = "SUSTAINED_OUTPUT" -> Assign(common, [nodeCount |-> 1])
          [] type = "LAYER" -> Assign(common, [nodeCount |-> 1, depth |-> 2])
          [] type = "CONCEPT" ->
               Assign(common, [nodeCount |-> 1, concepts |-> << Digit(k) >>])
          [] type = "LEARNED_OUTPUT" -> Assign(common, [nodeCount |-> 0])

\* The changes the inspector sends to updateModule for a module of this type.
UpdateConfigs(type) ==
    { [nodeCount |-> 1], [nodeCount |-> 2], [radius |-> 300] }
    \cup (IF type = "BRAIN"
          THEN { [regrowthRate |-> ONE], [synapsesPerNode |-> 1] } ELSE {})
    \cup (IF type = "SUSTAINED_OUTPUT" THEN { [gain |-> 2 * ONE] } ELSE {})

\* The coverage, localizer and sides connectModules is called with (the
\* connection dialog's slider runs from 0 to 100).
ConnectCalls ==
    { [coverage |-> 100, localizer |-> 0, srcSide |-> "ALL", tgtSide |-> "ALL"],
      [coverage |-> 50, localizer |-> 100, srcSide |-> "ALL", tgtSide |-> "ALL"],
      [coverage |-> 100, localizer |-> 100, srcSide |-> "RIGHT", tgtSide |-> "LEFT"],
      [coverage |-> 0, localizer |-> 0, srcSide |-> "ALL", tgtSide |-> "ALL"] }

NoCall == [coverage |-> 0, localizer |-> 0, srcSide |-> "", tgtSide |-> ""]

\* The history kept of the net:
\*   kit      the kit its modules come from
\*   added    modules added so far
\*   ops      calls made so far, steps the step() calls among them
\*   op       the last call, kind its branch (updateModule: "regen",
\*            "geometry" or "params"), a and b the module ids it was given,
\*            call the coverage, localizer and sides of a connectModules
\*   prev     the call before it
\*   created  how many connections at the tail of `connections` the last
\*            call added
\*   populated  populateLearnedOutput has been called
InitHist(kit) ==
    [ kit |-> kit, added |-> 0, ops |-> 0, steps |-> 0,
      op |-> "new", kind |-> "", a |-> <<>>, b |-> <<>>, call |-> NoCall,
      prev |-> [op |-> "", a |-> <<>>, b |-> <<>>, coverage |-> 0],
      created |-> 0, populated |-> FALSE ]

\* new NeuralNet(), seen from outside.
InitNet ==
    /\ node = <<>>
    /\ hist = <<>>
    /\ modules = NewNet.modules
    /\ nodes = NewNet.nodes
    /\ connections = NewNet.connections
    /\ moduleConnections = NewNet.moduleConnections
    /\ incoming = NewNet.incoming
    /\ nodeModuleMap = NewNet.nodeModuleMap
    /\ tickCount = NewNet.tickCount
    /\ nonce = NewNet.nonce
    /\ \E kit \in DOMAIN Kits : nh = InitHist(kit)

\* The net a call leaves becomes the state, and the call is recorded.
Returns(N, op, kind, a, b, call) ==
    /\ modules' = N.modules
    /\ nodes' = N.nodes
    /\ connections' = N.connections
    /\ moduleConnections' = N.moduleConnections
    /\ incoming' = N.incoming
    /\ nodeModuleMap' = N.nodeModuleMap
    /\ tickCount' = N.tickCount
    /\ nonce' = N.nonce
    /\ nh' = [nh EXCEPT !.ops = @ + 1,
                        !.added = IF op = "addModule" THEN @ + 1 ELSE @,
                        !.steps = IF op = "step" THEN @ + 1 ELSE @,
                        !.op = op, !.kind = kind, !.a = a, !.b = b, !.call = call,
                        !.prev = [op |-> nh.op, a |-> nh.a, b |-> nh.b,
                                  coverage |-> nh.call.coverage],
                        !.created = N.created,
                        !.populated = @ \/ op = "populateLearnedOutput"]
    /\ UNCHANGED nodeVars

\* Another call may be made on the net.
MayCall ==
    nh.ops < (IF nh.kit = "training" THEN MaxTrainingOps ELSE MaxNetOps)

\* The net as the call finds it, r being the outcome of Math.random() that the
\* call computes its weights from.
Drawing(r) == [Net EXCEPT !.random = r]

\* The ids of the modules of the net.
Ids == { modules[m].id : m \in DOMAIN modules }

\* net.addModule(config), for the next module of the kit.
AddModule ==
    /\ MayCall
    /\ nh.added < Len(Kits[nh.kit])
    /\ \E r \in Math_random :
         \E N \in addModule(Drawing(r), ModuleConfig(nh.kit, nh.added + 1)) :
            Returns(N, "addModule", "", ModuleIds[nh.added + 1], <<>>, NoCall)

\* The branch updateModule takes for this change.
UpdateKind(id, newConfig) ==
    LET module == Get(modules, id)
        differs == { key \in DOMAIN newConfig :
                       key \notin DOMAIN module \/ newConfig[key] # module[key] }
    IN  IF differs \cap {"type", "nodeCount", "depth"} # {} THEN "regen"
        ELSE IF differs \cap {"radius", "height", "width"} # {} THEN "geometry"
        ELSE "params"

\* net.updateModule(id, newConfig)
UpdateModule ==
    /\ MayCall
    /\ nh.kit # "training"
    /\ \E id \in Ids, r \in Math_random :
         \E newConfig \in UpdateConfigs(Get(modules, id).type) :
            \E N \in updateModule(Drawing(r), id, newConfig) :
               Returns(N, "updateModule", UpdateKind(id, newConfig), id, <<>>, NoCall)

\* net.rewireInternalConnections(moduleId), for a recurrent module
RewireInternalConnections ==
    /\ MayCall
    /\ \E id \in Ids, r \in Math_random :
         /\ Get(modules, id).type = "BRAIN"
         /\ \E N \in rewireInternalConnections(Drawing(r), id) :
               Returns(N, "rewireInternalConnections", "", id, <<>>, NoCall)

\* net.connectModules(sourceId, targetId, srcSide, tgtSide, coverage,
\* localizer), for two modules as the editor offers them.
ConnectModules ==
    /\ MayCall
    /\ \E a \in Ids, b \in Ids, call \in ConnectCalls, r \in Math_random :
         /\ a # b
         /\ \E N \in connectModules(Drawing(r), a, b, call.srcSide, call.tgtSide,
                                    call.coverage, call.localizer) :
               Returns(N, "connectModules", "", a, b, call)

\* net.disconnectModules(modId1, modId2)
DisconnectModules ==
    /\ MayCall
    /\ \E a \in Ids, b \in Ids :
         /\ a # b
         /\ Returns(disconnectModules(Net, a, b), "disconnectModules", "", a, b, NoCall)

\* net.removeModule(moduleId)
RemoveModule ==
    /\ MayCall
    /\ \E id \in Ids :
         Returns(removeModule(Net, id), "removeModule", "", id, <<>>, NoCall)

\* net.populateLearnedOutput(targetId, sourceConceptId)
PopulateLearnedOutput ==
    /\ MayCall
    /\ nh.kit = "training"
    /\ \E a \in Ids, b \in Ids :
         /\ Get(modules, a).type = "LEARNED_OUTPUT"
         /\ Get(modules, b).type = "CONCEPT"
         /\ Returns(populateLearnedOutput(Net, a, b), "populateLearnedOutput", "",
                    a, b, NoCall)

\* net.step()
Step ==
    /\ MayCall
    /\ nh.steps < MaxSteps
    /\ modules # <<>>
    /\ \E r \in Math_random :
         \E N \in step(Drawing(r)) : Returns(N, "step", "", <<>>, <<>>, NoCall)

\* net.resetState()
ResetState ==
    /\ MayCall
    /\ nh.op = "step"
    /\ Returns(resetState(Net), "resetState", "", <<>>, <<>>, NoCall)

NextNet ==
    \/ AddModule
    \/ UpdateModule
    \/ RewireInternalConnections
    \/ ConnectModules
    \/ DisconnectModules
    \/ RemoveModule
    \/ PopulateLearnedOutput
    \/ Step
    \/ ResetState

SpecNet == InitNet /\ [][NextNet]_vars

\* ------------------------------------------------------------------ a recurrent module with driven nodes

\* The descriptors of the RECURRENT module whose learning is observed: three
\* nodes, no refractory period, learning enabled, the synaptic budget at its
\* default (3.0) or low enough to be exceeded by the initial weights; with the
\* low budget, also a faster learner with a firing threshold of 0.3 that
\* prunes at 0.62, just under the larger of the initial weights.
LearningConfigs ==
    LET base == [ id |-> ModuleIds[1], type |-> "BRAIN", nodeCount |-> 3, depth |-> 1,
                  activationType |-> "SUSTAINED", threshold |-> ONE \div 2,
                  refractoryPeriod |-> 0, radius |-> 200, height |-> 600,
                  hebbianLearning |-> TRUE, learningRate |-> ONE \div 100 ]
        budget(t) == [ sustainability |-> [ synapticScaling |-> FALSE, targetSum |-> t ] ]
    IN  { Assign(base, budget(t)) : t \in { ONE \div 2, 3 * ONE } }
        \cup { Assign(base, Assign(budget(ONE \div 2),
                                   [ learningRate |-> ONE \div 50,
                                     threshold |-> (3 * ONE) \div 10,
                                     pruningThreshold |-> (62 * ONE) \div 100 ])) }

\* new NeuralNet(), about to receive the module.
InitLearning ==
    /\ node = <<>>
    /\ hist = <<>>
    /\ modules = NewNet.modules
    /\ nodes = NewNet.nodes
    /\ connections = NewNet.connections
    /\ moduleConnections = NewNet.moduleConnections
    /\ incoming = NewNet.incoming
    /\ nodeModuleMap = NewNet.nodeModuleMap
    /\ tickCount = NewNet.tickCount
    /\ nonce = NewNet.nonce
    /\ nh = InitHist("learning")

\* net.addModule(config) for the module and, right after it, for a second
\* RECURRENT module of two nodes that does not learn and whose id extends the
\* first module's id (as brain-10 extends brain-1); the second module joins a
\* first one that has the default synaptic budget.
AddLearningModule ==
    LET neighbour == [ id |-> ModuleIds[1] \o <<"0">>, type |-> "BRAIN",
                       nodeCount |-> 2, depth |-> 1,
                       activationType |-> "SUSTAINED", threshold |-> ONE \div 2,
                       refractoryPeriod |-> 0, radius |-> 200, height |-> 600,
                       hebbianLearning |-> FALSE ]
    IN  \E r \in Math_random :
          \E config \in (IF modules = <<>> THEN LearningConfigs
                         ELSE IF /\ Len(modules) = 1 /\ nh.op = "addModule"
                                 /\ modules[1].sustainability.targetSum = 3 * ONE
                         THEN { neighbour } ELSE {}) :
            \E N \in addModule(Drawing(r), config) :
               Returns(N, "addModule", "", config.id, <<>>, NoCall)

\* net.nodes.get(id).setInput(1.0): the potential of one node is driven up.
DriveNode ==
    /\ MayCall
    /\ \E i \in DOMAIN nodes :
         /\ nodes[i].potential < ONE
         /\ Returns([Net EXCEPT !.nodes[i] = SetInput(nodes[i], ONE)],
                    "setInput", "", nodes[i].id, <<>>, NoCall)

NextLearning ==
    \/ AddLearningModule
    \/ DriveNode
    \/ Step
    \/ ResetState

SpecLearning == InitLearning /\ [][NextLearning]_vars

\* ------------------------------------------------------------------ calls that name a missing module or node

\* NeuralNet.moveModule (the model keeps the position of the module; the
\* coordinates of its nodes are not part of the node record).
moveModule(N, id, newX, newY) ==
    IF ~Has(N.modules, id) THEN N
    ELSE [N EXCEPT !.modules = Put(@, Assign(Get(@, id), [x |-> newX, y |-> newY]))]

\* NeuralNet.renameModule (the labels of the nodes are not part of the node
\* record).
renameModule(N, id, newName) ==
    IF ~Has(N.modules, id) THEN N
    ELSE [N EXCEPT !.modules = Put(@, Assign(Get(@, id), [name |-> newName]))]

\* NeuralNet.updateNode, for a change of inputType.
updateNode(N, nodeId, config) ==
    IF ~Has(N.nodes, nodeId) THEN N
    ELSE IF "inputType" \in DOMAIN config
    THEN [N EXCEPT !.nodes = Put(@, [Get(@, nodeId) EXCEPT !.inputType = config.inputType])]
    ELSE N

\* An id that names no module of the net.  A call of kind "missing" names such
\* an id (for updateNode, the first node of such a module); it is the last call
\* that is observed.
MissingIds == { <<"z">> }

\* net.updateModule('z', newConfig)
UpdateMissing ==
    /\ nh.kind # "missing"
    /\ \E g \in MissingIds, r \in Math_random, newConfig \in UpdateConfigs("BRAIN") :
         \E N \in updateModule(Drawing(r), g, newConfig) :
            Returns(N, "updateModule", "missing", g, <<>>, NoCall)

\* net.moveModule('z', x, y)
MoveMissing ==
    /\ nh.kind # "missing"
    /\ \E g \in MissingIds :
         Returns(moveModule(Net, g, 100, 100), "moveModule", "missing", g, <<>>, NoCall)

\* net.renameModule('z', name)
RenameMissing ==
    /\ nh.kind # "missing"
    /\ \E g \in MissingIds :
         Returns(renameModule(Net, g, "n"), "renameModule", "missing", g, <<>>, NoCall)

\* net.removeModule('z')
RemoveMissing ==
    /\ nh.kind # "missing"
    /\ \E g \in MissingIds :
         Returns(removeModule(Net, g), "removeModule", "missing", g, <<>>, NoCall)

\* net.rewireInternalConnections('z')
RewireMissing ==
    /\ nh.kind # "missing"
    /\ \E g \in MissingIds, r \in Math_random :
         \E N \in rewireInternalConnections(Drawing(r), g) :
            Returns(N, "rewireInternalConnections", "missing", g, <<>>, NoCall)

\* net.connectModules('z', b) with b the first module of the net.
ConnectMissing ==
    /\ nh.kind # "missing"
    /\ modules # <<>>
    /\ \E g \in MissingIds, r \in Math_random :
         \E N \in connectModules(Drawing(r), g, modules[1].id, "ALL", "ALL", 100, 0) :
            Returns(N, "connectModules", "missing", g, modules[1].id, NoCall)

\* net.disconnectModules('z', b)
DisconnectMissing ==
    /\ nh.kind # "missing"
    /\ modules # <<>>
    /\ \E g \in MissingIds :
         Returns(disconnectModules(Net, g, modules[1].id), "disconnectModules", "missing",
                 g, modules[1].id, NoCall)

\* net.updateNode('z-0', {inputType})
UpdateNodeMissing ==
    /\ nh.kind # "missing"
    /\ \E g \in MissingIds :
         Returns(updateNode(Net, g \o Hy \o Digit(0), [inputType |-> "SIN"]),
                 "updateNode", "missing", g \o Hy \o Digit(0), <<>>, NoCall)

\* net.populateLearnedOutput('z', b)
PopulateMissing ==
    /\ nh.kind # "missing"
    /\ modules # <<>>
    /\ \E g \in MissingIds :
         Returns(populateLearnedOutput(Net, g, modules[1].id),
                 "populateLearnedOutput", "missing", g, modules[1].id, NoCall)

NextMissing ==
    \/ nh.kind # "missing" /\ NextNet
    \/ UpdateMissing
    \/ MoveMissing
    \/ RenameMissing
    \/ RemoveMissing
    \/ RewireMissing
    \/ ConnectMissing
    \/ DisconnectMissing
    \/ UpdateNodeMissing
    \/ PopulateMissing

SpecMissing == InitNet /\ [][NextMissing]_vars

\* ------------------------------------------------------------------ snapshots

\* NeuralNet.toJSON (x, y and label are not part of the node record).
toJSON(N) ==
    [ modules |-> N.modules,
      nodes |-> [i \in DOMAIN N.nodes |->
                   [ id |-> N.nodes[i].id,
                     type |-> N.nodes[i].type,
                     neuronType |-> N.nodes[i].neuronType,
                     activationType |-> N.nodes[i].activationType,
                     potential |-> N.nodes[i].potential ]],
      connections |-> [i \in DOMAIN N.connections |->
                         [ id |-> N.connections[i].id,
                           sourceId |-> N.connections[i].sourceId,
                           targetId |-> N.connections[i].targetId,
                           weight |-> N.connections[i].weight ]],
      moduleConnections |-> N.moduleConnections ]

\* fromJSON's data.nodes.forEach(n => this.addNode(...)), from the i-th on.
RECURSIVE LoadNodes(_, _, _)
LoadNodes(N, ns, i) ==
    IF i > Len(ns) THEN N ELSE LoadNodes(addNode(N, ns[i]), ns, i + 1)

\* fromJSON's data.connections.forEach(c => this.addConnection(c)).
RECURSIVE LoadConnections(_, _, _)
LoadConnections(N, cs, i) ==
    IF i > Len(cs) THEN N ELSE LoadConnections(addConnection(N, cs[i]), cs, i + 1)

\* fromJSON's rebuilding of nodeModuleMap: modules.forEach(mod =>
\* getModuleNodes(mod.id).forEach(n => nodeModuleMap.set(n.id, mod.id))); a node
\* under several prefixes keeps the module that comes last.
RebuiltNodeModuleMap(N) ==
    LET Owners(k) == { m \in DOMAIN N.modules : StartsWith(k, N.modules[m].id \o Hy) }
        owned == { N.nodes[i].id : i \in DOMAIN N.nodes } 
    IN  [ k \in { x \in owned : Owners(x) # {} } |->
            N.modules[CHOOSE m \in Owners(k) : \A o \in Owners(k) : o <= m].id ]

\* NeuralNet.fromJSON
fromJSON(N, data) ==
    LET N0 == [N EXCEPT !.nodes = <<>>, !.connections = <<>>, !.incoming = EmptyMap,
                        !.modules = data.modules,
                        !.moduleConnections = data.moduleConnections]
        N1 == LoadNodes(N0, data.nodes, 1)
        N2 == [N1 EXCEPT !.nodeModuleMap = RebuiltNodeModuleMap(N1)]
    IN  LoadConnections(N2, data.connections, 1)

\* A snapshot saved earlier from another net: toJSON() of a net holding one
\* LAYER module.
SavedSnapshot ==
    toJSON(CHOOSE N \in addModule(NewNet, ModuleConfig("layerActuator", 1)) : TRUE)

\* net.fromJSON(data), with for data the net's own snapshot (save and load
\* again) or the snapshot saved earlier; the snapshot that was loaded is kept
\* for reference.
Load ==
    /\ nh.op # "fromJSON"
    /\ \E data \in { toJSON(Net), SavedSnapshot } :
         \E N \in { fromJSON(Net, data) } :
            /\ modules' = N.modules
            /\ nodes' = N.nodes
            /\ connections' = N.connections
            /\ moduleConnections' = N.moduleConnections
            /\ incoming' = N.incoming
            /\ nodeModuleMap' = N.nodeModuleMap
            /\ tickCount' = N.tickCount
            /\ nonce' = N.nonce
            /\ nh' = [ Assign(nh, [loaded |-> data])
                       EXCEPT !.ops = @ + 1, !.op = "fromJSON", !.kind = "",
                              !.a = <<>>, !.b = <<>>, !.call = NoCall,
                              !.prev = [op |-> nh.op, a |-> nh.a, b |-> nh.b,
                                        coverage |-> nh.call.coverage],
                              !.created = 0 ]
            /\ UNCHANGED nodeVars

\* net.updateModule(id, {activationType}) from the inspector of an actuator
\* module.
SetActivationType ==
    /\ MayCall
    /\ \E id \in Ids, r \in Math_random, t \in {"PULSE", "SUSTAINED"} :
         /\ Get(modules, id).type \in {"OUTPUT", "SUSTAINED_OUTPUT"}
         /\ Opt(Get(modules, id), "activationType", "") # t
         /\ \E N \in updateModule(Drawing(r), id, [activationType |-> t]) :
               Returns(N, "updateModule", "param", id, <<>>, NoCall)

\* The load is the last call that is observed.
NextLoad ==
    \/ nh.op # "fromJSON" /\ NextNet
    \/ nh.op # "fromJSON" /\ SetActivationType
    \/ Load

SpecLoad == InitNet /\ [][NextLoad]_vars

\* ------------------------------------------------------------------ signals crossing from one module to another

\* A net of a source module 'a' (two nodes: recurrent nodes, sustained
\* actuators or PULSE-mode sensors) wired into a target module 'b',
\* as addModule, connectModules and, for a SUSTAINED_OUTPUT source,
\* addConnection (an extra edge of weight w from a's first node to b's first
\* node) and updateModule(a, {activationType: 'PULSE'}) leave it.
InitSignal ==
    /\ node = <<>>
    /\ hist = <<>>
    /\ nh = InitHist("signal")
    /\ \E s \in {"BRAIN", "SUSTAINED_OUTPUT", "INPUT"}, t \in {"BRAIN", "SUSTAINED_OUTPUT"},
          w \in {0, ONE \div 2, 2 * ONE}, flag \in {"", "PULSE"} :
         LET config(k, type) ==
                 [ id |-> ModuleIds[k], type |-> type, depth |-> 1,
                   nodeCount |-> IF k = 2 /\ type = "SUSTAINED_OUTPUT" THEN 1 ELSE 2,
                   activationType |-> IF type = "BRAIN" THEN "SUSTAINED" ELSE "PULSE",
                   threshold |-> ONE \div 2,
                   refractoryPeriod |-> IF type = "BRAIN" THEN 1 ELSE 2,
                   radius |-> 200, height |-> 600 ]
             a == ModuleIds[1]
             b == ModuleIds[2]
         IN  /\ s # "SUSTAINED_OUTPUT" => w = 0 /\ flag = ""
             /\ \E N1 \in addModule(NewNet, config(1, s)) :
                \E N2 \in addModule(N1, config(2, t)) :
                \E N3 \in connectModules(N2, a, b, "ALL", "ALL", 100, 0) :
                \E N4 \in { IF w = 0 THEN N3
                            ELSE addConnection(N3, [ id |-> <<"x">>,
                                                     sourceId |-> NodesWithPrefix(N3, a)[1].id,
                                                     targetId |-> NodesWithPrefix(N3, b)[1].id,
                                                     weight |-> w ]) } :
                \E N \in (IF flag = "" THEN {N4}
                          ELSE updateModule(N4, a, [activationType |-> flag])) :
                   /\ modules = N.modules
                   /\ nodes = N.nodes
                   /\ connections = N.connections
                   /\ moduleConnections = N.moduleConnections
                   /\ incoming = N.incoming
                   /\ nodeModuleMap = N.nodeModuleMap
                   /\ tickCount = N.tickCount
                   /\ nonce = N.nonce

\* The nodes of the net are driven and the net is stepped.
NextSignal ==
    \/ DriveNode
    \/ Step

SpecSignal == InitSignal /\ [][NextSignal]_vars

\* ------------------------------------------------------------------ a recurrent module that is maintained

\* A net of a RECURRENT module 'a' of two or three nodes wired into an actuator
\* module 'b' of one node, as addModule, connectModules and, when the
\* inspector's Synapses/Node field (a number input with min 0) was edited,
\* updateModule(a, {synapsesPerNode}) leave it; counts are the node counts the
\* recurrent module may have.
InitRewire(counts) ==
    /\ node = <<>>
    /\ hist = <<>>
    /\ nh = InitHist("rewire")
    /\ \E count \in counts, edited \in BOOLEAN, synapsesPerNode \in {0, 1} :
         LET config == [ id |-> ModuleIds[1], type |-> "BRAIN", depth |-> 1,
                         nodeCount |-> count, activationType |-> "SUSTAINED",
                         threshold |-> ONE \div 2, refractoryPeriod |-> 1,
                         radius |-> 200, height |-> 600 ]
             actuator == [ id |-> ModuleIds[2], type |-> "OUTPUT", depth |-> 1,
                           nodeCount |-> 1, activationType |-> "PULSE",
                           threshold |-> ONE \div 2, refractoryPeriod |-> 2,
                           radius |-> 200, height |-> 600 ]
         IN  /\ ~edited => synapsesPerNode = 0
             /\ \E N1 \in addModule(NewNet, config) :
                \E N2 \in addModule(N1, actuator) :
                \E N3 \in connectModules(N2, config.id, actuator.id,
                                         "ALL", "ALL", 100, 100) :
                \E N \in (IF edited
                          THEN updateModule(N3, config.id,
                                            [synapsesPerNode |-> synapsesPerNode])
                          ELSE {N3}) :
                   /\ modules = N.modules
                   /\ nodes = N.nodes
                   /\ connections = N.connections
                   /\ moduleConnections = N.moduleConnections
                   /\ incoming = N.incoming
                   /\ nodeModuleMap = N.nodeModuleMap
                   /\ tickCount = N.tickCount
                   /\ nonce = N.nonce

\* The module is rewired, again and again.
SpecRewire == InitRewire({2, 3}) /\ [][RewireInternalConnections]_vars

\* The modules of such a net, the recurrent one of two nodes, are updated from
\* the inspector while the net runs.
SpecTune == InitRewire({2}) /\ [][UpdateModule \/ DriveNode \/ Step]_vars

\* ------------------------------------------------------------------ modules that are removed

\* A net of three modules: a RECURRENT module 'a', a second module whose id is
\* 'b' or extends the first one's by a hyphen ('a-b'), and an actuator module
\* 'c'; connectModules has wired the first into the second, or the second into
\* the first, and the second into the third.
InitRemove ==
    /\ node = <<>>
    /\ hist = <<>>
    /\ nh = InitHist("remove")
    /\ \E second \in { ModuleIds[2], ModuleIds[1] \o Hy \o ModuleIds[2] },
          type \in {"BRAIN", "OUTPUT"}, forward \in BOOLEAN :
         LET config(id, t, count) ==
                 [ id |-> id, type |-> t, depth |-> 1, nodeCount |-> count,
                   activationType |-> IF t = "BRAIN" THEN "SUSTAINED" ELSE "PULSE",
                   threshold |-> ONE \div 2,
                   refractoryPeriod |-> IF t = "BRAIN" THEN 1 ELSE 2,
                   radius |-> 200, height |-> 600 ]
             a == ModuleIds[1]
             c == ModuleIds[3]
         IN  \E N1 \in addModule(NewNet, config(a, "BRAIN", 2)) :
             \E N2 \in addModule(N1, config(second, type, 2)) :
             \E N3 \in addModule(N2, config(c, "OUTPUT", 1)) :
             \E N4 \in connectModules(N3, IF forward THEN a ELSE second,
                                      IF forward THEN second ELSE a,
                                      "ALL", "ALL", 100, 100) :
             \E N \in connectModules(N4, second, c, "ALL", "ALL", 100, 100) :
                /\ modules = N.modules
                /\ nodes = N.nodes
                /\ connections = N.connections
                /\ moduleConnections = N.moduleConnections
                /\ incoming = N.incoming
                /\ nodeModuleMap = N.nodeModuleMap
                /\ tickCount = N.tickCount
                /\ nonce = N.nonce

\* The modules of the net are removed one after the other.
SpecRemove == InitRemove /\ [][RemoveModule]_vars

\* ================================================================== claims

\* ------------------------------------------------------------------ C1

\* C1: in every reachable state (after any sequence of update(inputSum),
\* setInput, reset and parameter changes) the node's potential satisfies
\* 0 <= potential <= maxPotential.
C1_PotentialInRange ==
    0 <= node.potential /\ node.potential <= node.maxPotential

\* ------------------------------------------------------------------ C2

\* C2: a non-sensor node that fires on an update, having fired sinceFire + 1
\* updates earlier with no reset() in between, is at least refractoryPeriod
\* updates past that earlier fire (refractoryPeriod as it was at that fire).
C2_RefractoryGating ==
    [][ ( /\ Len(hist'.pattern) > Len(hist.pattern)
          /\ node.cls # "InputNode"
          /\ node'.isFiring
          /\ hist.sinceFire # -1 )
        => hist.sinceFire + 1 >= hist.fireR ]_vars

\* ------------------------------------------------------------------ C10

\* The case of C10: a PULSE-mode node without fatigue that has only been
\* update()d, every time with the same input, which is supra-threshold
\* (integrated and decayed from rest it reaches the threshold).
C10_Case ==
    /\ node.cls \in {"BrainNode", "Node"}
    /\ node.activationType = "PULSE"
    /\ node.fatigue = 0
    /\ hist.ops = 0
    /\ hist.sameIn
    /\ hist.pattern # <<>>
    /\ Mul(hist.firstIn + node.bias, node.decay) >= node.threshold

NodeIds == { nodes[i].id : i \in DOMAIN nodes }

\* The positions of the connections the last call added.
LastCreated == (Len(connections) - nh.created + 1)..Len(connections)

\* incoming[n] lists exactly the connections whose targetId is n, each once.
IncomingAgrees ==
    \A n \in NodeIds \cup DOMAIN incoming :
        LET inc == MapGet(incoming, n, <<>>)
        IN  /\ Range(inc) = { k \in DOMAIN connections : connections[k].targetId = n }
            /\ Cardinality(Range(inc)) = Len(inc)

\* nodeModuleMap has one entry per node, naming the module that made it.
NodeModuleMapAgrees ==
    /\ DOMAIN nodeModuleMap = NodeIds
    /\ \A n \in NodeIds :
          /\ Has(modules, nodeModuleMap[n])
          /\ StartsWith(n, nodeModuleMap[n] \o Hy)

\* C3: after any sequence of addModule, updateModule, connectModules,
\* disconnectModules, removeModule and step() calls (and of
\* rewireInternalConnections and resetState), each having returned, incoming[n]
\* holds exactly the connections whose targetId is n, for every node id n, and
\* nodeModuleMap holds exactly one entry per existing node, naming the existing
\* module that owns it.
C3_IndicesAgree ==
    ~nh.populated => IncomingAgrees /\ NodeModuleMapAgrees

\* A module connected to another has been regenerated with another node count:
\* the net has edges between the two modules and a node with two incoming
\* edges.
C3_Witness ==
    /\ ~nh.populated
    /\ nh.op = "updateModule"
    /\ nh.kind = "regen"
    /\ nh.prev.op = "connectModules"
    /\ \E i \in DOMAIN connections :
          ModuleOf(Net, connections[i].sourceId) # ModuleOf(Net, connections[i].targetId)
    /\ \E n \in NodeIds : Len(MapGet(incoming, n, <<>>)) >= 2

\* ------------------------------------------------------------------ C4

\* C4: after a structural rebuild has returned (updateModule that changes
\* type, nodeCount or depth; removeModule; populateLearnedOutput), every
\* connection has both its sourceId and its targetId in the node set.
C4_NoDanglingEdges ==
    ( \/ nh.op = "removeModule"
      \/ nh.op = "populateLearnedOutput"
      \/ (nh.op = "updateModule" /\ nh.kind = "regen") )
    => Attached(Net) = DOMAIN connections

\* ------------------------------------------------------------------ C5

\* C5: after a wiring operation (addModule, updateModule with regeneration and
\* repair, rewireInternalConnections, connectModules, step() with its regrowth)
\* the connection list has at most one edge per ordered (sourceId, targetId).
C5_OneEdgePerPair ==
    ( \/ nh.op \in {"addModule", "rewireInternalConnections", "connectModules", "step"}
      \/ (nh.op = "updateModule" /\ nh.kind = "regen") )
    => \A i, j \in DOMAIN connections :
          i # j => \/ connections[i].sourceId # connections[j].sourceId
                   \/ connections[i].targetId # connections[j].targetId

\* ------------------------------------------------------------------ C6

\* The weight of the connection has the sign of its source's neuronType:
\* strictly positive from an EXCITATORY source, strictly negative otherwise.
FollowsDale(conn) ==
    IF Get(nodes, conn.sourceId).neuronType = "EXCITATORY"
    THEN conn.weight > 0
    ELSE conn.weight < 0

\* C6: every connection created by rewireInternalConnections or by
\* connectModules, whatever the types of the source and target modules, has a
\* strictly positive weight when its source node is EXCITATORY and a strictly
\* negative weight otherwise.
C6_WiringFollowsDale ==
    nh.op \in {"rewireInternalConnections", "connectModules"}
    => \A i \in LastCreated : FollowsDale(connections[i])

\* ------------------------------------------------------------------ C7

\* Every edge of the net joins two nodes and follows Dale's principle.
AllFollowDale ==
    /\ Attached(Net) = DOMAIN connections
    /\ \A i \in DOMAIN connections : FollowsDale(connections[i])

\* Every edge inside one module follows Dale's principle.
IntraFollowDale ==
    \A i \in Attached(Net) :
        ModuleOf(Net, connections[i].sourceId) = ModuleOf(Net, connections[i].targetId)
        => FollowsDale(connections[i])

\* C7: a step() with learning (Hebbian update, tax, inhibitory rule, regrowth)
\* made on a net whose edges all follow Dale's principle leaves a net whose
\* intra-module edges, kept or newly grown, all follow it.
C7_LearningKeepsDale ==
    [][ (nh'.steps > nh.steps /\ AllFollowDale) => IntraFollowDale' ]_vars

\* ------------------------------------------------------------------ C8

\* The positions of the edges between the modules a and b, either way.
Between(a, b) ==
    { i \in DOMAIN connections :
        LET srcMod == ModuleOf(Net, connections[i].sourceId)
            tgtMod == ModuleOf(Net, connections[i].targetId)
        IN  (srcMod = a /\ tgtMod = b) \/ (srcMod = b /\ tgtMod = a) }

\* The last call was connectModules(A, B, ...), made right after another
\* connectModules(A, B, ...) with another coverage.
C8_Case ==
    /\ nh.op = "connectModules"
    /\ nh.prev.op = "connectModules"
    /\ nh.prev.a = nh.a
    /\ nh.prev.b = nh.b
    /\ nh.prev.coverage # nh.call.coverage

\* Each side the last connectModules call named has a node.
Wired ==
    /\ nh.op = "connectModules"
    /\ getNodesForSide(Net, nh.a, nh.call.srcSide) # <<>>
    /\ getNodesForSide(Net, nh.b, nh.call.tgtSide) # <<>>

\* The edges between the modules of the last call are the edges between
\* modules that the call created.
OnlyNewEdgesBetween ==
    Between(nh.a, nh.b) =
        { i \in LastCreated :
            ModuleOf(Net, connections[i].sourceId) # ModuleOf(Net, connections[i].targetId) }

\* The link config of the last call's modules holds its sides and localizer
\* and the given coverage.
LinkConfigHolds(coverage) ==
    /\ (nh.a \o Hy \o nh.b) \in DOMAIN moduleConnections
    /\ moduleConnections[nh.a \o Hy \o nh.b] =
          [ sourceId |-> nh.a, targetId |-> nh.b,
            coverage |-> coverage, localizer |-> nh.call.localizer,
            sides |-> [src |-> nh.call.srcSide, tgt |-> nh.call.tgtSide] ]

\* C8 as stated: when connectModules(A, B, ...) is called and then called again
\* with a different coverage, the edges between A and B are exactly those the
\* second call created, and the link config of (A, B) holds the second call's
\* parameters.
C8_SecondCallReplaces ==
    C8_Case => OnlyNewEdgesBetween /\ LinkConfigHolds(nh.call.coverage)

\* C8, amended: when connectModules(A, B, ...) is called and then called again
\* with a different coverage, and each side of the second call has a node, the
\* edges between A and B are exactly those the second call created, and the
\* link config of (A, B) holds the second call's sides and localizer and its
\* coverage brought into 1..100.
C8_SecondWiringReplaces ==
    (C8_Case /\ Wired) =>
        /\ OnlyNewEdgesBetween
        /\ Between(nh.a, nh.b) # {}
        /\ LinkConfigHolds(Max(1, Min(100, nh.call.coverage)))

\* Two sources were connected to two targets with coverage 100 and then with
\* coverage 50: one edge per source is left.
C8_Witness ==
    /\ C8_Case
    /\ Wired
    /\ nh.prev.coverage = 100
    /\ nh.call.coverage = 50
    /\ Len(getNodesForSide(Net, nh.a, "ALL")) = 2
    /\ Len(getNodesForSide(Net, nh.b, "ALL")) = 2
    /\ Cardinality(Between(nh.a, nh.b)) = 2

\* ------------------------------------------------------------------ C9

\* C9: connectModules(A, B) with coverage c creates, for every source node of
\* A, exactly max(1, floor(|B| * c / 100)) edges, all to pairwise distinct
\* target nodes that belong to B, whatever the random draws.
C9_ExactFanOut ==
    Wired =>
        LET sourceNodes == getNodesForSide(Net, nh.a, nh.call.srcSide)
            targetNodes == getNodesForSide(Net, nh.b, nh.call.tgtSide)
            targetIds == { targetNodes[t].id : t \in DOMAIN targetNodes }
        IN  \A s \in DOMAIN sourceNodes :
               LET mine == { i \in LastCreated : connections[i].sourceId = sourceNodes[s].id }
               IN  /\ Cardinality(mine) =
                         Max(1, (Len(targetNodes) * nh.call.coverage) \div 100)
                   /\ \A i \in mine : connections[i].targetId \in targetIds
                   /\ \A i, j \in mine :
                         i # j => connections[i].targetId # connections[j].targetId

\* ------------------------------------------------------------------ C11

\* The case of C11: a SUSTAINED-mode node without fatigue that has only been
\* update()d, every time with the same supra-threshold input.
C11_Case ==
    /\ node.cls \in {"BrainNode", "Node", "SustainedOutputNode"}
    /\ node.activationType = "SUSTAINED"
    /\ node.fatigue = 0
    /\ hist.ops = 0
    /\ hist.sameIn
    /\ Mul(hist.firstIn + node.bias, node.decay) >= node.threshold

\* C11: a SUSTAINED-mode node under the same constant supra-threshold input
\* keeps potential >= threshold right after its first fire and on every update
\* of the refractory window that follows, and fires on the first update made
\* with refractoryTimer at 0.
C11_SustainedKeepsPotential ==
    [][ ( /\ Len(hist'.pattern) > Len(hist.pattern)
          /\ C11_Case' )
        => /\ ( /\ hist'.pattern[1] # 0
                /\ \A k \in 2..Len(hist'.pattern) : hist'.pattern[k] = 0
                /\ (Len(hist'.pattern) = 1 \/ node.refractoryTimer > 0) )
              => node'.potential >= node'.threshold
           /\ node.refractoryTimer = 0 => node'.isFiring ]_vars

\* ------------------------------------------------------------------ C12

\* The case of C12: a SUSTAINED-mode node with refractoryPeriod 1 and no
\* fatigue that has been update()d with input 1.5 every time, and on which
\* nothing else was called since its first update().
C12_Case ==
    /\ node.cls # "InputNode"
    /\ node.activationType = "SUSTAINED"
    /\ node.refractoryPeriod = 1
    /\ node.fatigue = 0
    /\ hist.opsAfter = 0
    /\ hist.sameIn
    /\ hist.pattern # <<>>
    /\ hist.firstIn = (3 * ONE) \div 2

\* C12: a SUSTAINED-mode node with refractoryPeriod 1 under constant input 1.5
\* never fires on two consecutive updates and never stays silent for more than
\* refractoryPeriod + 1 consecutive updates after a fire, whatever the jitter
\* (so that it fires on more than 30 and fewer than 60 of 100 updates).
C12_RateLimited ==
    [][ ( /\ Len(hist'.pattern) > Len(hist.pattern)
          /\ C12_Case
          /\ C12_Case' )
        => /\ hist.sinceFire = 0 => ~node'.isFiring
           /\ hist.sinceFire = node.refractoryPeriod + 1 => node'.isFiring ]_vars

\* ------------------------------------------------------------------ C13

\* The RECURRENT modules with learning enabled and regrowth disabled none of
\* whose nodes is active (all activations 0).
IdleLearningModules ==
    { m \in Ids :
        /\ Get(modules, m).type = "BRAIN"
        /\ Opt(Get(modules, m), "hebbianLearning", FALSE)
        /\ OptOr(Get(modules, m), "regrowthRate", 0) = 0
        /\ \A n \in Range(getModuleNodes(Net, m)) : n.activation = 0 }

\* The positions of the edges inside module m.
EdgesInside(m) ==
    { i \in Attached(Net) :
        /\ ModuleOf(Net, connections[i].sourceId) = m
        /\ ModuleOf(Net, connections[i].targetId) = m }

\* C13: a step() of a learning-enabled RECURRENT module without regrowth in
\* which no node fires (all activations 0 before and after) leaves every edge
\* inside the module with its weight, whether its source is excitatory or
\* inhibitory, and, when the call before it was a step() too, removes none.
C13_IdlePlasticityIsIdempotent ==
    [][ nh'.steps > nh.steps
        => \A m \in IdleLearningModules \cap IdleLearningModules' :
             \A i \in EdgesInside(m) :
                LET after == { j \in DOMAIN connections' :
                                 connections'[j].id = connections[i].id }
                IN  /\ nh.op = "step" => after # {}
                    /\ \A j \in after : connections'[j].weight = connections[i].weight
      ]_vars

\* The excitatory edges inside a learning RECURRENT module, by position.
LearningEdges ==
    { i \in Attached(Net) :
        /\ ModuleOf(Net, connections[i].sourceId) = ModuleOf(Net, connections[i].targetId)
        /\ Get(modules, ModuleOf(Net, connections[i].sourceId)).type = "BRAIN"
        /\ Opt(Get(modules, ModuleOf(Net, connections[i].sourceId)), "hebbianLearning", FALSE)
        /\ Get(nodes, connections[i].sourceId).neuronType = "EXCITATORY" }

\* The summed absolute weight of the edges that reach the target of edge i from
\* inside its module, and the budget of that module.
InternalTotal(i) ==
    LET into == { j \in Attached(Net) :
                    /\ connections[j].targetId = connections[i].targetId
                    /\ ModuleOf(Net, connections[j].sourceId)
                         = ModuleOf(Net, connections[i].targetId) }
    IN  SumOver([j \in into |-> Abs(connections[j].weight)], into)

BudgetOf(i) ==
    LET module == Get(modules, ModuleOf(Net, connections[i].targetId))
    IN  IF "sustainability" \in DOMAIN module
        THEN OptOr(module.sustainability, "targetSum", 3 * ONE) ELSE 3 * ONE

\* Both ends of edge i are active in the state.
BothActive(i) ==
    /\ Get(nodes, connections[i].sourceId).activation = ONE
    /\ Get(nodes, connections[i].targetId).activation = ONE

\* C14: in a RECURRENT module with hebbianLearning, over a tick on which the
\* source and the target of an excitatory edge both have activation 1 the
\* weight of the edge does not decrease, and once the summed absolute internal
\* incoming weight of the target exceeds targetSum the weight no longer
\* changes, whatever the number of other internal edges into that target.
C14_CoActiveEdgePlateaus ==
    [][ nh'.steps > nh.steps
        => \A i \in LearningEdges :
             \A j \in DOMAIN connections' :
                ( /\ connections'[j].id = connections[i].id
                  /\ BothActive(j)' )
                => /\ connections'[j].weight >= connections[i].weight
                   /\ InternalTotal(i) > BudgetOf(i)
                        => connections'[j].weight = connections[i].weight ]_vars

\* C15: in every reachable state every node has currentThreshold >= threshold,
\* also after a fire with the adaptive threshold enabled and after
\* updateModule has set a new threshold on the existing nodes.
C15_ThresholdFloor == node.currentThreshold >= node.threshold

\* C16: between engine calls every node that is not a sensor has activation 0
\* or 1, and isFiring is true exactly when its activation is 1.
C16_FiringMirrorsActivation ==
    \A i \in DOMAIN nodes :
        nodes[i].type # "INPUT"
        => /\ nodes[i].activation \in {0, ONE}
           /\ nodes[i].isFiring <=> nodes[i].activation = ONE

\* C17: a mutation called with a module or node id that does not exist returns
\* and leaves modules, nodes, connections with their weights, link configs and
\* the derived indices as they were (an incoming group that is absent and one
\* that is empty count as the same).
C17_MissingIdIsNoOp ==
    [][ nh'.kind = "missing" /\ nh'.ops > nh.ops
        => /\ modules' = modules
           /\ nodes' = nodes
           /\ connections' = connections
           /\ moduleConnections' = moduleConnections
           /\ \A k \in DOMAIN incoming \cup DOMAIN incoming' :
                 MapGet(incoming', k, <<>>) = MapGet(incoming, k, <<>>)
           /\ nodeModuleMap' = nodeModuleMap ]_vars

\* The connectModules call that has just returned found no node on one of its
\* sides.
DegenerateCall ==
    /\ nh'.op = "connectModules"
    /\ nh'.ops > nh.ops
    /\ \/ Len(getNodesForSide(Net, nh'.a, nh'.call.srcSide)) = 0
       \/ Len(getNodesForSide(Net, nh'.b, nh'.call.tgtSide)) = 0

\* C18: connectModules(A, B, ...) in which a side resolves to zero nodes is a
\* no-op: the connections that existed between A and B before the call and the
\* link config stored for them are still present afterwards.
C18_DegenerateConnectIsNoOp ==
    [][ DegenerateCall
        => /\ \A i \in Between(nh'.a, nh'.b) :
                 \E j \in DOMAIN connections' : connections'[j] = connections[i]
           /\ \A k \in { nh'.a \o Hy \o nh'.b, nh'.b \o Hy \o nh'.a } \cap DOMAIN moduleConnections :
                 /\ k \in DOMAIN moduleConnections'
                 /\ moduleConnections'[k] = moduleConnections[k] ]_vars

\* The last call was fromJSON(d), d being nh.loaded.
JustLoaded == nh.op = "fromJSON"

\* C19: after fromJSON(d), whatever the net held before, the modules, nodes,
\* connections and link configs are exactly those listed in d, the incoming
\* groups are d's connections by target, nodeModuleMap has entries only for
\* d's nodes, and nothing of the previous net remains.
C19_LoadReplacesEverything ==
    JustLoaded
    => /\ modules = nh.loaded.modules
       /\ [i \in DOMAIN nodes |-> nodes[i].id]
            = [i \in DOMAIN nh.loaded.nodes |-> nh.loaded.nodes[i].id]
       /\ connections = nh.loaded.connections
       /\ moduleConnections = nh.loaded.moduleConnections
       /\ \A n \in DOMAIN incoming \cup { nh.loaded.nodes[i].id : i \in DOMAIN nh.loaded.nodes } :
             MapGet(incoming, n, <<>>) = ConnectionsInto(nh.loaded.connections, n)
       /\ DOMAIN nodeModuleMap \subseteq { nh.loaded.nodes[i].id : i \in DOMAIN nh.loaded.nodes }

\* The class of the nodes addModule (populateLearnedOutput for a
\* LEARNED_OUTPUT module) builds for a module with this descriptor.
VariantOf(module) ==
    NodeFactory_create(
        [ type |-> CASE module.type = "INPUT" -> "INPUT"
                     [] module.type \in {"OUTPUT", "SUSTAINED_OUTPUT"} -> "OUTPUT"
                     [] module.type = "LAYER" -> "INTERPRETATION"
                     [] module.type = "LEARNED_OUTPUT" -> "LEARNED"
                     [] module.type = "CONCEPT" -> "CONCEPT"
                     [] OTHER -> "HIDDEN",
          activationType |-> IF module.type = "SUSTAINED_OUTPUT" THEN "SUSTAINED"
                             ELSE IF module.type \in {"CONCEPT", "LEARNED_OUTPUT"} THEN "PULSE"
                             ELSE Opt(module, "activationType", "PULSE") ]).cls

\* C20: after fromJSON(d) the behavioural variant of each node is the one the
\* descriptor of its owning module implies, also when the kind or the
\* activation mode recorded for the node in the snapshot disagrees with it.
C20_VariantFollowsDescriptor ==
    JustLoaded
    => \A i \in DOMAIN nodes :
          Has(modules, ModuleOf(Net, nodes[i].id))
          => nodes[i].cls = VariantOf(Get(modules, ModuleOf(Net, nodes[i].id)))

\* ------------------------------------------------------------------ resetState, the input sum, plasticity, the refractory cycle

\* A node with its dynamic state (potential, activation, refractoryTimer)
\* blanked: what is left is its identity, parameters and the rest.
Blanked(n) == [n EXCEPT !.potential = 0, !.activation = 0, !.refractoryTimer = 0]

\* C21: resetState() sets potential, activation and refractoryTimer of every
\* node to 0 and tickCount to 0, and leaves the module table, the node set, the
\* node parameters, the connection list and every weight unchanged.
C21_ResetStateFrame ==
    [][ nh'.op = "resetState" /\ nh'.ops > nh.ops
        => /\ \A i \in DOMAIN nodes' :
                 /\ nodes'[i].potential = 0
                 /\ nodes'[i].activation = 0
                 /\ nodes'[i].refractoryTimer = 0
           /\ tickCount' = 0
           /\ modules' = modules
           /\ DOMAIN nodes' = DOMAIN nodes
           /\ \A i \in DOMAIN nodes : Blanked(nodes'[i]) = Blanked(nodes[i])
           /\ connections' = connections
           /\ moduleConnections' = moduleConnections ]_vars

\* resetState() has just returned on a net with edges in which a node had
\* fired and ticks had been counted.
C21_Witness ==
    /\ nh.op = "resetState"
    /\ connections # <<>>
    /\ \E i \in DOMAIN nodes : nodes[i].type # "INPUT" /\ nodes[i].averageFiringRate > 0

\* The potential, activation and firing flag of a node.
Outcome(n) == <<n.potential, n.activation, n.isFiring>>

\* C22: within one step() the input sum of each node that is not a sensor is
\* computed from the activation, isFiring and potential that all nodes held
\* before any update of that step ran, so the potentials and activations after
\* the step do not depend on the order in which the nodes are visited.
C22_InputsReadBeforeUpdates ==
    [][ ( /\ nh'.op = "step" /\ nh'.steps > nh.steps
          /\ \A k \in DOMAIN nodes : nodes[k].type # "INPUT" )
        => \A i \in DOMAIN nodes :
              \E jitter \in {0, 1} :
                 Outcome(nodes'[i])
                   = Outcome(Update(nodes[i], InputSum(Net, nodes[i]), jitter, NoGen)) ]_vars

\* step() has just run on a net in which an active node feeds another node:
\* visited in another order, the target would have read another input.
C22_Witness ==
    /\ nh.op = "step"
    /\ nh.steps = 2
    /\ \E i \in DOMAIN connections :
          /\ connections[i].weight # 0
          /\ Get(nodes, connections[i].sourceId).isFiring
          /\ ~Get(nodes, connections[i].targetId).isFiring

\* The positions of the edges into node t, and the module record that owns t.
EdgesInto(t) == { j \in DOMAIN connections : connections[j].targetId = t }

\* The targets in a SUSTAINED_OUTPUT module of the edges the last call created.
NewSustainedTargets ==
    { connections[i].targetId : i \in
        { j \in LastCreated :
            /\ Has(modules, ModuleOf(Net, connections[j].targetId))
            /\ Get(modules, ModuleOf(Net, connections[j].targetId)).type = "SUSTAINED_OUTPUT" } }

EdgesWithin(M) ==
    { i \in DOMAIN connections :
        /\ ModuleOf(Net, connections[i].sourceId) = M
        /\ ModuleOf(Net, connections[i].targetId) = M }

\* The ids of the RECURRENT modules that learn.
LearningModules ==
    { modules[m].id : m \in { k \in DOMAIN modules :
        modules[k].type = "BRAIN" /\ Opt(modules[k], "hebbianLearning", FALSE) = TRUE } }

\* C24: a step() changes or removes, through the Hebbian update, the tax and
\* the pruning of its learning RECURRENT modules, only connections whose source
\* and target both belong to such a module; every other connection is after the
\* step as it was before, whatever the ids of the modules.
C24_LearningStaysInside ==
    [][ nh'.op = "step" /\ nh'.steps > nh.steps
        => \A i \in DOMAIN connections :
              (\A M \in LearningModules : i \notin EdgesWithin(M))
              => \E j \in DOMAIN connections' : connections'[j] = connections[i] ]_vars

\* The weights at the end of the weight updates of a step() for the learning
\* module M: the Hebbian loop of the step, run on the connections the step
\* found and the activations it has just computed.
WeightsAfterLearning(M) ==
    HebbianLoop([connections |-> connections, connsToRemove |-> {}],
                [Net' EXCEPT !.connections = connections, !.incoming = incoming],
                Get(modules, M),
                Ascending({ i \in DOMAIN connections :
                              /\ StartsWith(connections[i].sourceId, M)
                              /\ StartsWith(connections[i].targetId, M) },
                          Len(connections)),
                1).connections

\* C25: at the end of a step() with regrowth disabled, an edge inside a
\* learning RECURRENT module has been removed exactly when its |weight| at the
\* end of that tick's weight updates is below the module's pruningThreshold
\* (0.05 unless set), and the incoming index does not list a removed edge.
C25_PrunedIffBelowThreshold ==
    [][ nh'.op = "step" /\ nh'.steps > nh.steps
        => \A M \in LearningModules :
              OptOr(Get(modules, M), "regrowthRate", 0) = 0
              => \A after \in { WeightsAfterLearning(M) } :
                 \A i \in EdgesWithin(M) :
                    LET removed == \A j \in DOMAIN connections' :
                                      connections'[j].id # connections[i].id
                    IN  /\ removed <=> Abs(after[i].weight)
                                         < Opt(Get(modules, M), "pruningThreshold", ONE \div 20)
                        /\ removed
                           => \A t \in DOMAIN incoming' :
                                 \A p \in Range(incoming'[t]) :
                                    p \in DOMAIN connections' ]_vars

\* The edges a step() runs through the Hebbian loop of the learning module M,
\* in the order of the loop.
LoopEdges(M) ==
    Ascending({ i \in DOMAIN connections :
                  /\ StartsWith(connections[i].sourceId, M)
                  /\ StartsWith(connections[i].targetId, M) },
              Len(connections))

\* The connections after the first k updates of that loop.
LearnedUpTo(M, k) ==
    HebbianLoop([connections |-> connections, connsToRemove |-> {}],
                [Net' EXCEPT !.connections = connections, !.incoming = incoming],
                Get(modules, M), SubSeq(LoopEdges(M), 1, k), 1).connections

\* The internal incoming edges of node t for the learning module M.
InternalInto(M, t) ==
    { i \in Range(MapGet(incoming, t, <<>>)) : StartsWith(connections[i].sourceId, M) }

\* C26: when a Hebbian update through an edge into target t leaves t's summed
\* |internal incoming weight| above targetSum, the tax taken from t's internal
\* incoming edges totals the increment just applied: the signed sum of t's
\* internal incoming weights is the same after the update as before it,
\* whether the source of the edge is excitatory or inhibitory.
C26_TaxPaysForIncrement ==
    [][ nh'.op = "step" /\ nh'.steps > nh.steps
        => \A M \in LearningModules :
              \A k \in 1..Len(LoopEdges(M)) :
                 \A before \in { LearnedUpTo(M, k - 1) } :
                 \A after \in { LearnedUpTo(M, k) } :
                    LET t == connections[LoopEdges(M)[k]].targetId
                        into == InternalInto(M, t)
                        targetSum == OptOr(Get(modules, M).sustainability, "targetSum", 3 * ONE)
                    IN  SumOver([i \in into |-> Abs(after[i].weight)], into) > targetSum
                        => SumOver([i \in into |-> after[i].weight], into)
                             = SumOver([i \in into |-> before[i].weight], into) ]_vars

\* The type of the module with this id ("" when the net has no such module).
TypeOfModule(id) == IF Has(modules, id) THEN Get(modules, id).type ELSE ""

\* The input sum of the node nd when the edges from each other RECURRENT
\* module are pooled: their sum of sourceActivation * weight is divided by
\* their count, unless nd belongs to a SUSTAINED_OUTPUT module; every other
\* edge contributes its signal undivided.
PooledSum(nd) ==
    LET into == EdgesInto(nd.id)
        srcMod(i) == ModuleOf(Net, connections[i].sourceId)
        tgtMod == ModuleOf(Net, nd.id)
        sig(i) == Mul(Get(nodes, connections[i].sourceId).activation, connections[i].weight)
        pooled == IF TypeOfModule(tgtMod) = "SUSTAINED_OUTPUT" THEN {}
                  ELSE { i \in into : srcMod(i) # tgtMod /\ TypeOfModule(srcMod(i)) = "BRAIN" }
        mods == { srcMod(i) : i \in pooled }
        from(M) == { i \in pooled : srcMod(i) = M }
    IN  SumOver([M \in mods |->
                    Div(SumOver([i \in from(M) |-> sig(i)], from(M)), Cardinality(from(M)))],
                mods)
        + SumOver([i \in into \ pooled |-> RawSignal(Net, nd, connections[i])],
                  into \ pooled)

FromSustained(t) ==
    { j \in EdgesInto(t) :
        TypeOfModule(ModuleOf(Net, connections[j].sourceId)) = "SUSTAINED_OUTPUT" }

\* What such an edge contributes to the input of node nd: its weight when its
\* source is firing and, for a pulse target, holds a potential above the
\* weight; nothing otherwise.
GatedSignal(nd, conn) ==
    LET src == Get(nodes, conn.sourceId)
    IN  IF nd.activationType = "SUSTAINED"
        THEN (IF src.isFiring THEN conn.weight ELSE 0)
        ELSE (IF src.isFiring /\ src.potential > conn.weight THEN conn.weight ELSE 0)

\* C28: in step(), an edge whose source is a node of a SUSTAINED_OUTPUT module
\* contributes exactly its weight when the target is sustained and the source
\* is firing, exactly its weight when the target is pulse, the source is
\* firing and the source's potential is strictly above the weight, and 0
\* otherwise.
C28_SustainedSourceGated ==
    [][ nh'.op = "step" /\ nh'.steps > nh.steps
        => \A i \in DOMAIN nodes :
              nodes[i].type # "INPUT"
              => \E jitter \in {0, 1} :
                    LET from == FromSustained(nodes[i].id)
                        sum == InputSum(Net, nodes[i])
                               - SumOver([j \in from |-> RawSignal(Net, nodes[i], connections[j])], from)
                               + SumOver([j \in from |-> GatedSignal(nodes[i], connections[j])], from)
                    IN  Outcome(nodes'[i]) = Outcome(Update(nodes[i], sum, jitter, NoGen)) ]_vars

\* C29: every update of a PULSE-mode node made while refractoryTimer > 0
\* decrements the timer, leaves isFiring false and activation 0, integrates no
\* input, and leaves the potential at 0.
C29_PulseRefractoryUpdate ==
    [][ ( /\ Len(hist'.pattern) > Len(hist.pattern)
          /\ node.cls # "InputNode"
          /\ node.activationType = "PULSE"
          /\ node.refractoryTimer > 0 )
        => /\ node'.refractoryTimer = node.refractoryTimer - 1
           /\ ~node'.isFiring
           /\ node'.activation = 0
           /\ node'.potential = 0 ]_vars

\* C30: a node is READY (refractoryTimer 0) or REFRACTORY (refractoryTimer
\* > 0): the timer is always within 0..refractoryPeriod + 1, it becomes
\* positive only by an update that fires, every update made while it is
\* positive decreases it by exactly 1, and a node that fired is READY again
\* after at most refractoryPeriod + 1 further updates, whatever the input.
C30_FiringCycle ==
    [][ LET updated == Len(hist'.pattern) > Len(hist.pattern)
        IN  /\ node'.refractoryTimer \in 0..(node'.refractoryPeriod + 1)
            /\ (node.refractoryTimer = 0 /\ node'.refractoryTimer > 0)
               => (updated /\ node'.isFiring)
            /\ (updated /\ node.refractoryTimer > 0)
               => node'.refractoryTimer = node.refractoryTimer - 1
            /\ (updated /\ ~node'.isFiring /\ hist'.sinceFire >= node'.refractoryPeriod + 1)
               => node'.refractoryTimer = 0 ]_vars

\* ------------------------------------------------------------------ C31

\* The step is an update() of a standard actuator node (an OutputNode object).
ActuatorUpdate ==
    /\ Len(hist'.pattern) > Len(hist.pattern)
    /\ node.cls = "OutputNode"

PulseSensors ==
    { i \in DOMAIN nodes : nodes[i].type = "INPUT" /\ nodes[i].inputType = "PULSE" }

\* The positions in `connections` of the edges from PULSE-mode sensors into
\* the node t, which is not a sensor.
SensorEdgesInto(t) ==
    { k \in DOMAIN connections :
        /\ connections[k].targetId = t
        /\ \E i \in PulseSensors : nodes[i].id = connections[k].sourceId }

\* The node is at rest: it is not firing and its activation is 0, so that its
\* outgoing edges carry nothing on the next step().
Silent(id) ==
    /\ Has(nodes, id)
    /\ Get(nodes, id).activation = 0
    /\ ~Get(nodes, id).isFiring

\* The sum over the edges K of (value held by the edge's source) * weight.
RECURSIVE SensorDrive(_)
SensorDrive(K) ==
    IF K = {} THEN 0
    ELSE LET k == CHOOSE k \in K : TRUE
         IN  Mul(Get(nodes, connections[k].sourceId).activation, connections[k].weight)
             + SensorDrive(K \ {k})

InternalFrom(M, id) ==
    { k \in DOMAIN connections :
        /\ connections[k].sourceId = id
        /\ ModuleOf(Net, connections[k].targetId) = M }

\* The call just made is rewireInternalConnections(M) on a RECURRENT module.
JustRewired ==
    /\ nh.op = "rewireInternalConnections"
    /\ Has(modules, nh.a)
    /\ Get(modules, nh.a).type = "BRAIN"

\* C33: after rewireInternalConnections(M) on a RECURRENT module with N nodes,
\* every node of M has exactly min(synapsesPerNode, N - 1) outgoing
\* intra-module edges (synapsesPerNode is 2 when the descriptor does not set
\* it), to pairwise distinct targets, none of them the node itself, and every
\* intra-module edge is one the call created.
C33_RewireFanOut ==
    JustRewired =>
       LET M == Get(modules, nh.a)
           members == { i \in DOMAIN nodes : ModuleOf(Net, nodes[i].id) = M.id }
           synapsesPerNode == Opt(M, "synapsesPerNode", 2)
           fanOut == Min(synapsesPerNode, Cardinality(members) - 1)
       IN  \A i \in members :
              LET out == InternalFrom(M.id, nodes[i].id)
              IN  /\ Cardinality(out) = fanOut
                  /\ Cardinality({ connections[k].targetId : k \in out }) = fanOut
                  /\ \A k \in out :
                        /\ connections[k].targetId # nodes[i].id
                        /\ k > Len(connections) - nh.created

\* C33 for a module whose synapsesPerNode is not 0.
C33_RewireFanOutNonZero ==
    (JustRewired /\ Opt(Get(modules, nh.a), "synapsesPerNode", 2) # 0)
       => C33_RewireFanOut

\* ------------------------------------------------------------------ C34

\* The connections of `conns`, in order, that do not run between the modules
\* a and b: both ends in a, both ends in b, or an end outside both.
NotBetween(conns, a, b) ==
    SelectSeq(conns,
              LAMBDA c :
                 LET srcMod == ModuleOf(Net, c.sourceId)
                     tgtMod == ModuleOf(Net, c.targetId)
                 IN  ~( (srcMod = a /\ tgtMod = b) \/ (srcMod = b /\ tgtMod = a) ))

\* C34: connectModules(A, B, ...) adds, removes or reweights only connections
\* that run between A and B: the connections with both ends in A, both ends in
\* B or an end in a third module are the same, with the same weights, after
\* the call, and no module descriptor changes (only the link config does).
C34_ConnectModulesFrame ==
    [][ nh'.op = "connectModules" =>
          /\ NotBetween(connections', nh'.a, nh'.b) = NotBetween(connections, nh'.a, nh'.b)
          /\ modules' = modules
          /\ nodes' = nodes
          /\ nodeModuleMap' = nodeModuleMap ]_vars

\* C34 for calls that do not localize a RECURRENT target: the target is no
\* RECURRENT module, or it is localized already, or the localizer is 100.
C34_FrameUnlessLocalized ==
    [][ ( /\ nh'.op = "connectModules"
          /\ ~( /\ Get(modules, nh'.b).type = "BRAIN"
                /\ nh'.call.localizer < 100
                /\ ~Opt(Get(modules, nh'.b), "isLocalized", FALSE)
                /\ getNodesForSide(Net, nh'.a, nh'.call.srcSide) # <<>>
                /\ getNodesForSide(Net, nh'.b, nh'.call.tgtSide) # <<>> ) )
        => /\ NotBetween(connections', nh'.a, nh'.b) = NotBetween(connections, nh'.a, nh'.b)
           /\ modules' = modules ]_vars

\* ------------------------------------------------------------------ C35

\* The link configs of `configs` other than those for (a, b) and (b, a).
OtherLinks(configs, a, b) ==
    { key \in DOMAIN configs :
        ~( \/ (configs[key].sourceId = a /\ configs[key].targetId = b)
           \/ (configs[key].sourceId = b /\ configs[key].targetId = a) ) }

\* C35: disconnectModules(X, Y) removes exactly the connections with one end
\* in X and the other in Y, in either direction, and the link configs for
\* (X, Y) and (Y, X); every other connection keeps its place and weight, every
\* other link config, every module and every node is unchanged, and a second
\* disconnectModules(X, Y) changes nothing.
C35_DisconnectModulesExact ==
    [][ nh'.op = "disconnectModules" =>
          /\ connections' = NotBetween(connections, nh'.a, nh'.b)
          /\ DOMAIN moduleConnections' = OtherLinks(moduleConnections, nh'.a, nh'.b)
          /\ \A key \in DOMAIN moduleConnections' :
                moduleConnections'[key] = moduleConnections[key]
          /\ modules' = modules
          /\ nodes' = nodes
          /\ nodeModuleMap' = nodeModuleMap
          /\ LET again == disconnectModules(
                             [Net EXCEPT !.connections = connections',
                                         !.moduleConnections = moduleConnections',
                                         !.incoming = incoming'],
                             nh'.a, nh'.b)
             IN  /\ again.connections = connections'
                 /\ again.moduleConnections = moduleConnections'
                 /\ again.incoming = incoming' ]_vars

\* Two modules that connectModules had wired one way, and whose link config it
\* had stored, have just been disconnected, the arguments given the other way
\* round; the edges inside the modules are still there.
C35_Witness ==
    /\ nh.op = "disconnectModules"
    /\ nh.prev.op = "connectModules"
    /\ nh.prev.a = nh.b
    /\ nh.prev.b = nh.a
    /\ Between(nh.a, nh.b) = {}
    /\ connections # <<>>

\* ------------------------------------------------------------------ C36

\* The node id is owned by the module M (nodeModuleMap, which addModule fills
\* with the id of the module it creates the node for).
OwnedBy(id, M) == ModuleOf(Net, id) = M

\* removeModule(M) took away M's descriptor, M's nodes, the connections with an
\* end owned by M and the link configs naming M, and nothing else.
RemovedExactly(M) ==
    /\ modules' = SelectSeq(modules, LAMBDA m : m.id # M)
    /\ nodes' = SelectSeq(nodes, LAMBDA n : ~OwnedBy(n.id, M))
    /\ connections' = SelectSeq(connections,
                                LAMBDA c : ~OwnedBy(c.sourceId, M) /\ ~OwnedBy(c.targetId, M))
    /\ DOMAIN moduleConnections' =
          { key \in DOMAIN moduleConnections :
              moduleConnections[key].sourceId # M /\ moduleConnections[key].targetId # M }
    /\ \A key \in DOMAIN moduleConnections' :
          moduleConnections'[key] = moduleConnections[key]

\* C36: removeModule(M) removes exactly M's descriptor, the nodes owned by M,
\* every connection with an end owned by M and every link config naming M; the
\* nodes, connections and link configs of all other modules are unchanged,
\* whatever the module ids are.
C36_RemoveModuleExact ==
    [][ nh'.op = "removeModule" => RemovedExactly(nh'.a) ]_vars

\* C36 for a module whose id, followed by a hyphen, begins no other module's id.
C36_RemoveExactUnlessPrefix ==
    [][ ( /\ nh'.op = "removeModule"
          /\ \A m \in DOMAIN modules : ~StartsWith(modules[m].id, nh'.a \o Hy) )
        => RemovedExactly(nh'.a) ]_vars

\* ------------------------------------------------------------------ C37

\* The call being made is updateModule(M, cfg) with a cfg that changes none of
\* type, nodeCount and depth.
TunesModule ==
    /\ nh'.op = "updateModule"
    /\ nh'.kind # "regen"

\* C37: updateModule(M, cfg) whose cfg changes none of type, nodeCount and
\* depth destroys and recreates no node: the node ids are the same after the
\* call, every node has the potential, activation and refractoryTimer it had,
\* and no node of another module and no connection among the nodes of other
\* modules changes.
C37_UpdateKeepsNodes ==
    [][ TunesModule =>
          /\ Len(nodes') = Len(nodes)
          /\ \A i \in DOMAIN nodes :
                /\ nodes'[i].id = nodes[i].id
                /\ nodes'[i].potential = nodes[i].potential
                /\ nodes'[i].activation = nodes[i].activation
                /\ nodes'[i].refractoryTimer = nodes[i].refractoryTimer
                /\ ~OwnedBy(nodes[i].id, nh'.a) => nodes'[i] = nodes[i]
          /\ nodeModuleMap' = nodeModuleMap
          /\ SelectSeq(connections',
                       LAMBDA c : ~OwnedBy(c.sourceId, nh'.a) /\ ~OwnedBy(c.targetId, nh'.a))
             = SelectSeq(connections,
                         LAMBDA c : ~OwnedBy(c.sourceId, nh'.a) /\ ~OwnedBy(c.targetId, nh'.a)) ]_vars

\* A module has just been updated without a change of type, nodeCount or
\* depth while one of its nodes was charged and another module's node was
\* charged too, after a step() of the net.
C37_Witness ==
    /\ nh.op = "updateModule"
    /\ nh.kind # "regen"
    /\ nh.prev.op \in {"step", "setInput"}
    /\ tickCount > 0
    /\ \E i \in DOMAIN nodes : OwnedBy(nodes[i].id, nh.a) /\ nodes[i].potential > 0
    /\ \E i \in DOMAIN nodes : ~OwnedBy(nodes[i].id, nh.a) /\ nodes[i].potential > 0

\* ------------------------------------------------------------------ C38

\* The connection tuples (id, sourceId, targetId, weight) of `conns`.
Tuples(conns) ==
    [i \in DOMAIN conns |->
        << conns[i].id, conns[i].sourceId, conns[i].targetId, conns[i].weight >>]

\* The connection tuples of `conns` with the weight left out of those whose
\* target is a node of a SUSTAINED_OUTPUT module.
TuplesButSustainedWeights(conns) ==
    [i \in DOMAIN conns |->
        << conns[i].id, conns[i].sourceId, conns[i].targetId,
           IF /\ Has(modules, ModuleOf(Net, conns[i].targetId))
              /\ Get(modules, ModuleOf(Net, conns[i].targetId)).type = "SUSTAINED_OUTPUT"
           THEN 0 ELSE conns[i].weight >>]

\* C38: toJSON() followed by fromJSON on a fresh engine reproduces the
\* modules, the node ids, the link configs and the connection tuples (id,
\* sourceId, targetId, weight) of the net: every loaded connection has the
\* weight recorded in the snapshot, also when its target is a sustained
\* actuator whose fan-in changed since the weight was set.
C38_SnapshotRoundTrip ==
    \A fresh \in { fromJSON(NewNet, toJSON(Net)) } :
       /\ fresh.modules = modules
       /\ [i \in DOMAIN fresh.nodes |-> fresh.nodes[i].id] = [i \in DOMAIN nodes |-> nodes[i].id]
       /\ fresh.moduleConnections = moduleConnections
       /\ Tuples(fresh.connections) = Tuples(connections)

\* C38 without the weights of the connections into sustained actuators.
C38_RoundTripButSustainedWeights ==
    \A fresh \in { fromJSON(NewNet, toJSON(Net)) } :
       /\ fresh.modules = modules
       /\ [i \in DOMAIN fresh.nodes |-> fresh.nodes[i].id] = [i \in DOMAIN nodes |-> nodes[i].id]
       /\ fresh.moduleConnections = moduleConnections
       /\ TuplesButSustainedWeights(fresh.connections) = TuplesButSustainedWeights(connections)

====
